---------------------------- MODULE Spec2Model ----------------------------
(***************************************************************************)
(* CashFlow backend: the transaction ledger (create / delete / register    *)
(* against the DynamoDB users and transactions tables) and the period      *)
(* aggregation engine (period summary, analytics, dashboard).              *)
(*                                                                         *)
(* Strings that the code compares, sorts or splits (ISO dates, day keys)   *)
(* are sequences of UTF-16 code units.  A JavaScript Date is a record      *)
(* [sec, ms]: whole seconds since 1970-01-01T00:00:00Z and the millisecond *)
(* within the second (TLC integers are 32 bits wide, a millisecond count   *)
(* since the epoch is not).  Amounts are integers.                         *)
(***************************************************************************)
EXTENDS Integers, Sequences, FiniteSets, TLC

(***************************************************************************)
(* Bounds of the model.                                                    *)
(***************************************************************************)
\* requests served concurrently (handlers in flight at the same time)
NumProcs == 2
\* createTransaction requests that pass validation, over a whole run
MaxTxns == 2
\* length of the transaction list handed to the pure builders
MaxLen == 3
\* largest magnitude of the arguments handed to the scoring functions
MaxAmount == 64

(***************************************************************************)
(* Small helpers.                                                          *)
(***************************************************************************)
Min(S) == CHOOSE x \in S : \A y \in S : x <= y

Max(S) == CHOOSE x \in S : \A y \in S : x >= y

Last(s) == s[Len(s)]

Range(s) == {s[i] : i \in 1..Len(s)}

\* Array.prototype.reduce((sum, x) => sum + x, 0) over a sequence of numbers
RECURSIVE reduceSum(_)
reduceSum(s) == IF s = <<>> THEN 0 ELSE s[1] + reduceSum(Tail(s))

(***************************************************************************)
(* Strings: code units, comparison by code unit (JavaScript's default sort *)
(* order and DynamoDB's string comparison), String.prototype.split.        *)
(***************************************************************************)
ChDash == 45

ChDot == 46

ChColon == 58

ChT == 84

ChZ == 90

Digit(n) == 48 + n

Pad2(n) == <<Digit((n \div 10) % 10), Digit(n % 10)>>

Pad3(n) == <<Digit((n \div 100) % 10), Digit((n \div 10) % 10), Digit(n % 10)>>

Pad4(n) == <<Digit((n \div 1000) % 10), Digit((n \div 100) % 10),
             Digit((n \div 10) % 10), Digit(n % 10)>>

\* a <= b as strings: the first differing code unit decides, a prefix is smaller
StrLeq(a, b) ==
    LET n == IF Len(a) <= Len(b) THEN Len(a) ELSE Len(b)
        diff == {i \in 1..n : a[i] # b[i]}
    IN  IF diff = {} THEN Len(a) <= Len(b) ELSE a[Min(diff)] < b[Min(diff)]

\* DynamoDB: #date BETWEEN :lo AND :hi
Between(d, lo, hi) == StrLeq(lo, d) /\ StrLeq(d, hi)

\* s.split('T')[0]
splitT0(s) ==
    LET ts == {i \in 1..Len(s) : s[i] = ChT}
    IN  IF ts = {} THEN s ELSE SubSeq(s, 1, Min(ts) - 1)

(***************************************************************************)
(* Dates.  The proleptic Gregorian calendar as the JavaScript engine       *)
(* implements it (days from the epoch <-> year, month, day).               *)
(***************************************************************************)
SecPerDay == 24 * 60 * 60

DaysFromCivil(y0, m, d) ==
    LET y   == IF m <= 2 THEN y0 - 1 ELSE y0
        era == y \div 400
        yoe == y - era * 400
        mp  == IF m > 2 THEN m - 3 ELSE m + 9
        doy == (153 * mp + 2) \div 5 + d - 1
        doe == yoe * 365 + yoe \div 4 - yoe \div 100 + doy
    IN  era * 146097 + doe - 719468

CivilFromDays(z0) ==
    LET z   == z0 + 719468
        era == z \div 146097
        doe == z - era * 146097
        yoe == (doe - doe \div 1460 + doe \div 36524 - doe \div 146096) \div 365
        doy == doe - (365 * yoe + yoe \div 4 - yoe \div 100)
        mp  == (5 * doy + 2) \div 153
        d   == doy - (153 * mp + 2) \div 5 + 1
        m   == IF mp < 10 THEN mp + 3 ELSE mp - 9
        y   == yoe + era * 400 + (IF m <= 2 THEN 1 ELSE 0)
    IN  [y |-> y, m |-> m, d |-> d]

\* Date.prototype.toISOString(): "YYYY-MM-DDTHH:mm:ss.sssZ", in UTC
toISOString(t) ==
    LET c   == CivilFromDays(t.sec \div SecPerDay)
        rem == t.sec % SecPerDay
    IN  Pad4(c.y) \o <<ChDash>> \o Pad2(c.m) \o <<ChDash>> \o Pad2(c.d) \o <<ChT>>
        \o Pad2(rem \div 3600) \o <<ChColon>> \o Pad2((rem \div 60) % 60)
        \o <<ChColon>> \o Pad2(rem % 60) \o <<ChDot>> \o Pad3(t.ms) \o <<ChZ>>

\* new Date(year, monthIndex, day, h, mi, s) in the host's time zone (tz seconds
\* east of UTC): month and day overflow are carried, milliseconds are 0
newDateLocal(year, monthIndex, day, h, mi, s, tz) ==
    LET y == year + (monthIndex \div 12)
        m == (monthIndex % 12) + 1
    IN  [sec |-> (DaysFromCivil(y, m, 1) + day - 1) * SecPerDay
                 + h * 3600 + mi * 60 + s - tz,
         ms  |-> 0]

\* now.getFullYear() and now.getMonth() (0-based) in the host's time zone
getFullYear(t, tz) == CivilFromDays((t.sec + tz) \div SecPerDay).y

getMonth(t, tz) == CivilFromDays((t.sec + tz) \div SecPerDay).m - 1

\* new Date(now.getTime() - days * 24 * 60 * 60 * 1000)
minusDays(t, days) == [sec |-> t.sec - days * 24 * 60 * 60, ms |-> t.ms]

\* a UTC instant, for writing the model's inputs
UTC(y, m, d, h, mi, s, ms) ==
    [sec |-> DaysFromCivil(y, m, d) * SecPerDay + h * 3600 + mi * 60 + s,
     ms  |-> ms]

(***************************************************************************)
(* State.                                                                  *)
(***************************************************************************)
VARIABLES
    users,     \* USERS table: userId -> item
    txns,      \* TRANSACTIONS table: the set of stored items
    nextId,    \* randomUUID(): the next fresh transactionId
    clock,     \* the instant new Date() returns
    tz,        \* the host's time zone, seconds east of UTC
    pc,        \* per request slot: the await the handler is suspended at
    frame,     \* per request slot: the running handler's locals
    resp,      \* per request slot: the last response sent (its status; of the body,
               \* what the aggregation endpoints return)
    anchor,    \* per user: the balance the user started with (history)
    fnIn,      \* input of the pure builders: a transaction list and a balance
    fnOut,     \* their outputs
    alerts     \* SNS: the users a financial alert was published for

vars == <<users, txns, nextId, clock, tz, pc, frame, resp, anchor, fnIn, fnOut, alerts>>

Procs == 1..NumProcs

Users == {"u1", "u2"}

\* req.user?.sub of a request whose token carries no sub
NoSub == ""

\* a missing string field of a request body (falsy)
Missing == ""

\* a missing date of a request body (falsy)
NoDate == <<>>

\* req.params.id when empty (falsy)
NoId == 0

NoItem == [exists |-> FALSE, hasBalance |-> FALSE, startingBalance |-> 0, email |-> Missing]

NoFrame == [op |-> "none"]

NoResp == [op |-> "none", status |-> 0]

\* userResult.Item?.startingBalance || 0
storedBalance(item) ==
    IF item.exists /\ item.hasBalance THEN item.startingBalance ELSE 0

\* every transaction taken for neither type (C20's mutant)
categorizeTransaction_uncategorized(description, amount, type) == "Uncategorized"

(***************************************************************************)
(* createTransaction                                                       *)
(***************************************************************************)
categorizeTransaction(description, amount, type) ==
    IF type = "income" THEN "General Income"
    ELSE IF type = "expense" THEN "General Expense"
    ELSE "Uncategorized"

\* const balanceChange = type === 'income' ? amount : -amount
createBalanceChange(type, amount) == IF type = "income" THEN amount ELSE 0 - amount

\* the update written as 'SET startingBalance = :balanceChange' (C2's mutant)
addStartingBalance_overwrite(item, change) ==
    [item EXCEPT !.hasBalance = TRUE, !.startingBalance = change]

\* UpdateExpression 'ADD startingBalance :balanceChange': one atomic step of the
\* store; an absent attribute counts as 0
addStartingBalance(item, change) ==
    [item EXCEPT !.hasBalance = TRUE,
                 !.startingBalance = (IF item.hasBalance THEN item.startingBalance ELSE 0) + change]

\* UpdateExpression 'SET startingBalance = if_not_exists(startingBalance, :zero)
\* + :balanceChange': creates the item when there is none
setStartingBalance(item, change) ==
    [item EXCEPT !.exists = TRUE,
                 !.hasBalance = TRUE,
                 !.startingBalance = (IF item.exists /\ item.hasBalance
                                      THEN item.startingBalance ELSE 0) + change]

Respond(p, r) ==
    /\ resp' = [resp EXCEPT ![p] = r]
    /\ pc' = [pc EXCEPT ![p] = "idle"]
    /\ frame' = [frame EXCEPT ![p] = NoFrame]

Goto(p, label, f) ==
    /\ pc' = [pc EXCEPT ![p] = label]
    /\ frame' = [frame EXCEPT ![p] = f]
    /\ UNCHANGED resp

\* the request arrives: validation, and the transaction is built
createTransaction(p, sub, body) ==
    /\ pc[p] = "idle"
    /\ IF sub = NoSub
       THEN /\ Respond(p, [op |-> "create", status |-> 400, error |-> "User ID not found in token"])
            /\ UNCHANGED nextId
       ELSE IF body.type \notin {"income", "expense"}
       THEN /\ Respond(p, [op |-> "create", status |-> 400, error |-> "Invalid or missing transaction type"])
            /\ UNCHANGED nextId
       ELSE IF body.amountType # "number" \/ body.amount <= 0
       THEN /\ Respond(p, [op |-> "create", status |-> 400, error |-> "Amount must be a positive number"])
            /\ UNCHANGED nextId
       ELSE IF body.description = Missing
       THEN /\ Respond(p, [op |-> "create", status |-> 400, error |-> "Description is required"])
            /\ UNCHANGED nextId
       ELSE /\ nextId <= MaxTxns
            /\ LET now == toISOString(clock)
                   finalCategory ==
                       IF body.category # Missing THEN body.category
                       ELSE categorizeTransaction(body.description, body.amount, body.type)
                   transaction ==
                       [transactionId |-> nextId,
                        userId        |-> sub,
                        amount        |-> body.amount,
                        description   |-> body.description,
                        category      |-> finalCategory,
                        type          |-> body.type,
                        date          |-> IF body.date # NoDate THEN body.date ELSE now]
               IN  Goto(p, "create_put",
                        [op |-> "create", userId |-> sub, transaction |-> transaction])
            /\ nextId' = nextId + 1
    /\ UNCHANGED <<users, txns, clock, tz, anchor, fnIn, fnOut, alerts>>

\* await PutCommand(TRANSACTIONS, transaction)
createPut(p) ==
    /\ pc[p] = "create_put"
    /\ txns' = txns \cup {frame[p].transaction}
    /\ Goto(p, "create_add", frame[p])
    /\ UNCHANGED <<users, nextId, clock, tz, anchor, fnIn, fnOut, alerts>>

\* await UpdateCommand(ADD ..., ConditionExpression attribute_exists(userId));
\* a failed condition throws into the catch (balanceError) block
createAdd(p) ==
    /\ pc[p] = "create_add"
    /\ LET u == frame[p].userId
           t == frame[p].transaction
       IN  IF users[u].exists
           THEN /\ users' = [users EXCEPT
                        ![u] = addStartingBalance(@, createBalanceChange(t.type, t.amount))]
                /\ Goto(p, "create_get", frame[p])
           ELSE /\ UNCHANGED users
                /\ Goto(p, "create_set", frame[p])
    /\ UNCHANGED <<txns, nextId, clock, tz, anchor, fnIn, fnOut, alerts>>

\* catch (balanceError): await UpdateCommand(SET ... if_not_exists ...)
createSet(p) ==
    /\ pc[p] = "create_set"
    /\ LET u == frame[p].userId
           t == frame[p].transaction
       IN  users' = [users EXCEPT
                        ![u] = setStartingBalance(@, createBalanceChange(t.type, t.amount))]
    /\ Goto(p, "create_get", frame[p])
    /\ UNCHANGED <<txns, nextId, clock, tz, anchor, fnIn, fnOut, alerts>>

\* await GetCommand(USERS); res.status(201)
createGet(p) ==
    /\ pc[p] = "create_get"
    /\ Respond(p, [op |-> "create", status |-> 201])
    /\ UNCHANGED <<users, txns, nextId, clock, tz, anchor, fnIn, fnOut, alerts>>

(***************************************************************************)
(* deleteTransaction                                                       *)
(***************************************************************************)
\* the reversal with the sign of the create (C1's mutant)
deleteBalanceChange_notReversed(type, amount) == IF type = "income" THEN amount ELSE 0 - amount

\* const balanceChange = transaction.type === 'income' ? -transaction.amount : transaction.amount
deleteBalanceChange(type, amount) == IF type = "income" THEN 0 - amount ELSE amount

\* the lookup without the ownership test (C28's mutant)
deleteGet_anyOwner(p) ==
    /\ pc[p] = "delete_get"
    /\ LET found == {t \in txns : t.transactionId = frame[p].id}
       IN  IF found = {}
           THEN Respond(p, [op |-> "delete", status |-> 404, error |-> "Transaction not found"])
           ELSE Goto(p, "delete_del",
                     [op |-> "delete", userId |-> frame[p].userId,
                      id |-> frame[p].id, transaction |-> CHOOSE t \in found : TRUE])
    /\ UNCHANGED <<users, txns, nextId, clock, tz, anchor, fnIn, fnOut, alerts>>

deleteTransaction(p, sub, id) ==
    /\ pc[p] = "idle"
    /\ IF sub = NoSub
       THEN Respond(p, [op |-> "delete", status |-> 400, error |-> "User ID not found in token"])
       ELSE IF id = NoId
       THEN Respond(p, [op |-> "delete", status |-> 400, error |-> "Transaction ID is required"])
       ELSE Goto(p, "delete_get", [op |-> "delete", userId |-> sub, id |-> id])
    /\ UNCHANGED <<users, txns, nextId, clock, tz, anchor, fnIn, fnOut, alerts>>

\* await GetCommand(TRANSACTIONS, id); 404 / 403
deleteGet(p) ==
    /\ pc[p] = "delete_get"
    /\ LET found == {t \in txns : t.transactionId = frame[p].id}
       IN  IF found = {}
           THEN Respond(p, [op |-> "delete", status |-> 404, error |-> "Transaction not found"])
           ELSE LET item == CHOOSE t \in found : TRUE
                IN  IF item.userId # frame[p].userId
                    THEN Respond(p, [op |-> "delete", status |-> 403,
                                     error |-> "Not authorized to delete this transaction"])
                    ELSE Goto(p, "delete_del",
                              [op |-> "delete", userId |-> frame[p].userId,
                               id |-> frame[p].id, transaction |-> item])
    /\ UNCHANGED <<users, txns, nextId, clock, tz, anchor, fnIn, fnOut, alerts>>

\* await DeleteCommand(TRANSACTIONS, id): no condition, succeeds on a missing item
deleteDel(p) ==
    /\ pc[p] = "delete_del"
    /\ txns' = {t \in txns : t.transactionId # frame[p].id}
    /\ Goto(p, "delete_add", frame[p])
    /\ UNCHANGED <<users, nextId, clock, tz, anchor, fnIn, fnOut, alerts>>

\* await UpdateCommand(ADD ..., ConditionExpression attribute_exists(userId));
\* a failed condition throws to the handler's catch: 500
deleteAdd(p) ==
    /\ pc[p] = "delete_add"
    /\ LET u == frame[p].userId
           t == frame[p].transaction
       IN  IF users[u].exists
           THEN /\ users' = [users EXCEPT
                        ![u] = addStartingBalance(@, deleteBalanceChange(t.type, t.amount))]
                /\ Goto(p, "delete_read", frame[p])
           ELSE /\ UNCHANGED users
                /\ Respond(p, [op |-> "delete", status |-> 500,
                               error |-> "The conditional request failed"])
    /\ UNCHANGED <<txns, nextId, clock, tz, anchor, fnIn, fnOut, alerts>>

\* await GetCommand(USERS); res.json
deleteRead(p) ==
    /\ pc[p] = "delete_read"
    /\ Respond(p, [op |-> "delete", status |-> 200])
    /\ UNCHANGED <<users, txns, nextId, clock, tz, anchor, fnIn, fnOut, alerts>>

(***************************************************************************)
(* register                                                                *)
(***************************************************************************)
register(p, sub, body) ==
    /\ pc[p] = "idle"
    /\ IF sub = NoSub
       THEN Respond(p, [op |-> "register", status |-> 400, error |-> "User ID not found in token"])
       ELSE IF body.email = Missing
       THEN Respond(p, [op |-> "register", status |-> 400, error |-> "Email is required"])
       ELSE Goto(p, "register_put",
                 [op |-> "register", userId |-> sub,
                  user |-> [exists |-> TRUE, hasBalance |-> body.hasBalance,
                            startingBalance |-> body.startingBalance,
                            email |-> body.email]])
    /\ UNCHANGED <<users, txns, nextId, clock, tz, anchor, fnIn, fnOut, alerts>>

\* await PutCommand(USERS, user, ConditionExpression attribute_not_exists(userId));
\* ConditionalCheckFailedException: 400 'User already exists'
registerPut(p) ==
    /\ pc[p] = "register_put"
    /\ LET u == frame[p].userId
       IN  IF users[u].exists
           THEN /\ Respond(p, [op |-> "register", status |-> 400, error |-> "User already exists"])
                /\ UNCHANGED <<users, anchor>>
           ELSE /\ users' = [users EXCEPT ![u] = frame[p].user]
                /\ anchor' = [anchor EXCEPT ![u] = storedBalance(frame[p].user)]
                /\ Respond(p, [op |-> "register", status |-> 201])
    /\ UNCHANGED <<txns, nextId, clock, tz, fnIn, fnOut, alerts>>

(***************************************************************************)
(* Numbers.  A JavaScript number is an IEEE 754 double: here a sign (1, -1, *)
(* or 0 for zero), the binary exponent of the leading 1 of the significand, *)
(* and the 52 digits that follow the leading 1, held as four limbs of 13    *)
(* binary digits, the most significant first.  Every result is rounded to   *)
(* the nearest double, ties to the even significand.  The amounts of the    *)
(* model are integers below 2^18, which doubles hold exactly; the           *)
(* magnitudes met are far from overflow and from the subnormals.            *)
(***************************************************************************)
SignificandBits == 53

LimbBits == 13

\* the powers of 2 from 2^0 to 2^30
PowersOfTwo ==
    <<1, 2, 4, 8, 16, 32, 64, 128, 256, 512, 1024, 2048, 4096, 8192, 16384, 32768,
      65536, 131072, 262144, 524288, 1048576, 2097152, 4194304, 8388608, 16777216,
      33554432, 67108864, 134217728, 268435456, 536870912, 1073741824>>

pow2(k) == PowersOfTwo[k + 1]

LimbBase == pow2(LimbBits)

numberZero == [sign |-> 0, limbs |-> <<0, 0, 0, 0>>, exp |-> 0]

\* the number of binary digits of a natural number (0 for 0)
RECURSIVE bitLength(_)
bitLength(n) == IF n = 0 THEN 0 ELSE 1 + bitLength(n \div 2)

\* limb i of a sequence of limbs, zeros past its end
limbOrZero(w, i) == IF i <= Len(w) THEN w[i] ELSE 0

\* limb i of the sequence w moved s binary digits down, s < LimbBits
movedLimb(w, i, s) ==
    (limbOrZero(w, i - 1) % pow2(s)) * pow2(LimbBits - s) + (limbOrZero(w, i) \div pow2(s))

\* the significand with 1 added to its last digit
carried(sign, sig, exp) ==
    IF \A i \in 1..4 : sig[i] = LimbBase - 1
    THEN [sign |-> sign, limbs |-> <<0, 0, 0, 0>>, exp |-> exp + 1]
    ELSE LET \* the last limb that is not full takes the carry
             j == CHOOSE i \in 1..4 :
                      sig[i] # LimbBase - 1 /\ \A k \in (i + 1)..4 : sig[k] = LimbBase - 1
         IN  [sign |-> sign, exp |-> exp,
              limbs |-> SubSeq(sig, 1, j - 1) \o <<sig[j] + 1>> \o SubSeq(<<0, 0, 0, 0>>, j + 1, 4)]

\* round to nearest, ties to even: sig holds the 52 digits below the leading
\* 1, next the LimbBits digits below them, and rest tells that the exact value
\* has non-zero digits further down
roundedTo(sign, sig, exp, next, rest) ==
    IF next > LimbBase \div 2 \/ (next = LimbBase \div 2 /\ (rest \/ (sig[4] % 2) = 1))
    THEN carried(sign, sig, exp)
    ELSE [sign |-> sign, limbs |-> sig, exp |-> exp]

\* the number of a sequence of limbs w (the most significant first, w[1] # 0)
\* whose leading 1 has s digits below it in w[1] and the exponent exp
roundFrom(sign, w, s, exp, sticky) ==
    roundedTo(sign,
              <<movedLimb(w, 2, s), movedLimb(w, 3, s), movedLimb(w, 4, s), movedLimb(w, 5, s)>>,
              exp,
              movedLimb(w, 6, s),
              \/ sticky
              \/ (limbOrZero(w, 6) % pow2(s)) # 0
              \/ \E i \in 7..Len(w) : w[i] # 0)

\* a sequence of limbs without its leading zero limbs
stripLimbs(w) ==
    SubSeq(w, CHOOSE i \in 1..Len(w) : w[i] # 0 /\ \A j \in 1..(i - 1) : w[j] = 0, Len(w))

roundStripped(sign, w, lo, sticky) ==
    roundFrom(sign, w, bitLength(w[1]) - 1,
              lo + LimbBits * (Len(w) - 1) + bitLength(w[1]) - 1, sticky)

\* the number of a sequence of limbs w, the most significant first, the lowest
\* digit of its last limb having the exponent lo; sticky tells that the exact
\* value has non-zero digits below w
roundLimbs(sign, w, lo, sticky) ==
    IF \A i \in 1..Len(w) : w[i] = 0 THEN numberZero
    ELSE roundStripped(sign, stripLimbs(w), lo, sticky)

\* long division, one limb of quotient digits at a time: the next k limbs of
\* the quotient of r / d for a remainder r < d
RECURSIVE quotientLimbs(_, _, _)
quotientLimbs(r, d, k) ==
    IF k = 0 THEN <<>>
    ELSE LET t == r * LimbBase
         IN  <<t \div d>> \o quotientLimbs(t % d, d, k - 1)

\* what is left of r after k limbs of quotient digits
RECURSIVE remainderAfter(_, _, _)
remainderAfter(r, d, k) ==
    IF k = 0 THEN r ELSE remainderAfter((r * LimbBase) % d, d, k - 1)

\* sign * a / b for 1 <= a / b < 2, times 2^e: five limbs of quotient digits
\* below the leading 1
divideAligned(sign, a, b, e) ==
    roundLimbs(sign, <<1>> \o quotientLimbs(a - b, b, 5), e - 5 * LimbBits,
               remainderAfter(a - b, b, 5) # 0)

\* sign * a / b for two positive integers of one length in binary digits,
\* times 2^e
divideSameLength(sign, a, b, e) ==
    IF a < b THEN divideAligned(sign, 2 * a, b, e - 1) ELSE divideAligned(sign, a, b, e)

\* sign * a / b for two positive integers of la and lb binary digits
dividePositive(sign, a, b, la, lb) ==
    IF la >= lb THEN divideSameLength(sign, a, b * pow2(la - lb), la - lb)
    ELSE divideSameLength(sign, a * pow2(lb - la), b, la - lb)

abs(n) == IF n < 0 THEN 0 - n ELSE n

\* n / d for two integer-valued numbers, d # 0
divide(n, d) ==
    IF n = 0 THEN numberZero
    ELSE dividePositive(IF (n < 0) = (d < 0) THEN 1 ELSE 0 - 1, abs(n), abs(d),
                        bitLength(abs(n)), bitLength(abs(d)))

\* the limbs of limbs[1..i] * c + carry
RECURSIVE timesLimbs(_, _, _, _)
timesLimbs(limbs, c, i, carry) ==
    IF i = 0 THEN <<carry>>
    ELSE LET v == limbs[i] * c + carry
         IN  timesLimbs(limbs, c, i - 1, v \div LimbBase) \o <<v % LimbBase>>

\* x * c for a number x and a small positive integer c
multiplyBy(x, c) ==
    IF x.sign = 0 THEN numberZero
    ELSE roundLimbs(x.sign, timesLimbs(<<1>> \o x.limbs, c, 5, 0),
                    x.exp - (SignificandBits - 1), FALSE)

\* limb i of the sequence v multiplied by up, a power of 2 below LimbBase
raisedLimb(v, i, up) == ((v[i] * up) % LimbBase) + ((v[i + 1] * up) \div LimbBase)

raisedLimbs(v, up) ==
    <<raisedLimb(v, 1, up), raisedLimb(v, 2, up), raisedLimb(v, 3, up),
      raisedLimb(v, 4, up), raisedLimb(v, 5, up), raisedLimb(v, 6, up)>>

\* the digits of |x|, x # 0, as six limbs whose boundaries stand at the
\* exponents that are multiples of LimbBits: limbs[6] holds the exponents
\* LimbBits * low .. LimbBits * low + LimbBits - 1
onGrid(x) ==
    LET lo == x.exp - (SignificandBits - 1)
    IN  [limbs |-> raisedLimbs(<<0, 1>> \o x.limbs \o <<0>>, pow2(lo % LimbBits)),
         low   |-> (lo - (lo % LimbBits)) \div LimbBits]

\* the limb of an onGrid value that holds the exponents from LimbBits * g
limbAt(X, g) ==
    IF g >= X.low /\ g <= X.low + 5 THEN X.limbs[X.low + 6 - g] ELSE 0

\* the limbs of a[1..i] + b[1..i] + carry
RECURSIVE addLimbs(_, _, _, _)
addLimbs(a, b, i, carry) ==
    IF i = 0 THEN <<carry>>
    ELSE LET v == a[i] + b[i] + carry
         IN  addLimbs(a, b, i - 1, v \div LimbBase) \o <<v % LimbBase>>

\* the limbs of a[1..i] - b[1..i] - borrow, for a >= b
RECURSIVE subLimbs(_, _, _, _)
subLimbs(a, b, i, borrow) ==
    IF i = 0 THEN <<>>
    ELSE LET v == a[i] - b[i] - borrow
         IN  subLimbs(a, b, i - 1, IF v < 0 THEN 1 ELSE 0) \o <<(v + LimbBase) % LimbBase>>

\* x + 1 for x # 0: xs holds the limbs of |x| and one those of 1, both n limbs
\* from the exponent lo upwards
plusOneLimbs(x, xs, one, n, lo) ==
    IF x.sign = 1 THEN roundLimbs(1, addLimbs(xs, one, n, 0), lo, FALSE)
    ELSE IF x.exp >= 0 THEN roundLimbs(0 - 1, subLimbs(xs, one, n, 0), lo, FALSE)
    ELSE roundLimbs(1, subLimbs(one, xs, n, 0), lo, FALSE)

\* x + 1 for x # 0 and X = onGrid(x), on the limbs from bottom to top
plusOneOnGrid(x, X, bottom, top) ==
    plusOneLimbs(x,
                 [i \in 1..(top - bottom + 1) |-> limbAt(X, top - i + 1)],
                 [i \in 1..(top - bottom + 1) |-> IF top - i + 1 = 0 THEN 1 ELSE 0],
                 top - bottom + 1,
                 LimbBits * bottom)

lowOf(X) == IF X.low < 0 THEN X.low ELSE 0

highOf(X) == IF X.low + 5 > 0 THEN X.low + 5 ELSE 0

plusOneAt(x, X) == plusOneOnGrid(x, X, lowOf(X), highOf(X))

\* x + 1
plusOne(x) ==
    IF x.sign = 0 THEN [sign |-> 1, limbs |-> <<0, 0, 0, 0>>, exp |-> 0]
    ELSE plusOneAt(x, onGrid(x))

\* Math.round: the nearest integer, a half rounded towards +Infinity
\* the integer part, whether the half is there, and whether digits are below it
roundHalfUp(sign, whole, half, below) ==
    IF sign = 1 THEN whole + half
    ELSE 0 - (whole + (IF half = 1 /\ below THEN 1 ELSE 0))

\* Math.round of sign * |x| given as X = onGrid(x); the integers met are below
\* LimbBase * LimbBase
roundOnGrid(sign, X) ==
    roundHalfUp(sign,
                limbAt(X, 0) + LimbBase * limbAt(X, 1),
                limbAt(X, 0 - 1) \div (LimbBase \div 2),
                \/ (limbAt(X, 0 - 1) % (LimbBase \div 2)) # 0
                \/ \E g \in X.low..(0 - 2) : limbAt(X, g) # 0)

\* Math.round: the nearest integer, a half rounded towards +Infinity
mathRound(x) == IF x.sign = 0 THEN 0 ELSE roundOnGrid(x.sign, onGrid(x))

(***************************************************************************)
(* The aggregation engine: pure builders.                                  *)
(***************************************************************************)
\* the reduce without the filter (C7's mutant)
sumOfType_unfiltered(transactions, type) ==
    reduceSum([i \in 1..Len(transactions) |-> transactions[i].amount])

\* transactions.filter(t => t.type === type).reduce((sum, t) => sum + t.amount, 0)
sumOfType(transactions, type) ==
    LET kept == SelectSeq(transactions, LAMBDA t : t.type = type)
    IN  reduceSum([i \in 1..Len(kept) |-> kept[i].amount])

\* the summary object of the period-summary and analytics responses
summaryOf(transactions) ==
    LET totalIncome   == sumOfType(transactions, "income")
        totalExpenses == sumOfType(transactions, "expense")
    IN  [totalIncome      |-> totalIncome,
         totalExpenses    |-> totalExpenses,
         netAmount        |-> totalIncome - totalExpenses,
         transactionCount |-> Len(transactions)]

\* index of key k in an object's entries (a sequence in insertion order), 0 if absent
indexOfKey(entries, k) ==
    LET at == {i \in 1..Len(entries) : entries[i].key = k}
    IN  IF at = {} THEN 0 ELSE Min(at)

\* the day key taken to be the whole date string (C6's mutant)
dayKeyOf_wholeDate(transaction) == transaction.date

\* const date = transaction.date.split('T')[0]
dayKeyOf(transaction) == splitT0(transaction.date)

\* groupTransactionsByDate: the grouped object as its entries in insertion order,
\* [key: the YYYY-MM-DD day, income, expense] (the per-day transactions array is
\* read by nothing and is left out)
RECURSIVE groupTransactionsByDate_from(_, _)
groupTransactionsByDate_from(transactions, grouped) ==
    IF transactions = <<>> THEN grouped
    ELSE LET transaction == Head(transactions)
             date == dayKeyOf(transaction)
             g1   == IF indexOfKey(grouped, date) = 0
                     THEN Append(grouped, [key |-> date, income |-> 0, expense |-> 0])
                     ELSE grouped
             i    == indexOfKey(g1, date)
             g2   == IF transaction.type = "income"
                     THEN [g1 EXCEPT ![i].income = @ + transaction.amount]
                     ELSE [g1 EXCEPT ![i].expense = @ + transaction.amount]
         IN  groupTransactionsByDate_from(Tail(transactions), g2)

groupTransactionsByDate(transactions) == groupTransactionsByDate_from(transactions, <<>>)

\* Array.prototype.sort() with no comparator on a set of distinct strings:
\* ascending by code unit
RECURSIVE sortStrings(_)
sortStrings(S) ==
    IF S = {} THEN <<>>
    ELSE LET least == CHOOSE x \in S : \A y \in S : StrLeq(x, y)
         IN  <<least>> \o sortStrings(S \ {least})

\* Object.keys(groupedData) without the sort (C5's mutant)
sortedDatesOf_unsorted(groupedData) == [i \in 1..Len(groupedData) |-> groupedData[i].key]

\* Object.keys(groupedData).sort()
sortedDatesOf(groupedData) == sortStrings({groupedData[i].key : i \in 1..Len(groupedData)})

\* generateChartData: the map over sortedDates, cumulativeBalance carried along
RECURSIVE generateChartData_from(_, _, _)
generateChartData_from(groupedData, sortedDates, cumulativeBalance) ==
    IF sortedDates = <<>> THEN <<>>
    ELSE LET date    == Head(sortedDates)
             dayData == groupedData[indexOfKey(groupedData, date)]
             net     == dayData.income - dayData.expense
         IN  <<[date |-> date, income |-> dayData.income, expense |-> dayData.expense,
                net |-> net, cumulativeBalance |-> cumulativeBalance + net]>>
             \o generateChartData_from(groupedData, Tail(sortedDates), cumulativeBalance + net)

\* the fold seeded with 0 instead of startingBalance (C4's mutant)
generateChartData_seedZero(groupedData, startingBalance) ==
    generateChartData_from(groupedData, sortedDatesOf(groupedData), 0)

generateChartData(groupedData, startingBalance) ==
    generateChartData_from(groupedData, sortedDatesOf(groupedData), startingBalance)

\* the share left as a fraction, not multiplied by 100 (C13's mutant)
roundPercent_fraction(amount, total) == mathRound(divide(amount, total))

\* Math.round((amount / total) * 100)
roundPercent(amount, total) == mathRound(multiplyBy(divide(amount, total), 100))

\* the categories object of one type: entries [key: category, amount] in the
\* order the categories are first met
RECURSIVE categoriesOf(_, _, _)
categoriesOf(transactions, isThisType, categories) ==
    IF transactions = <<>> THEN categories
    ELSE LET transaction == Head(transactions)
             c1 == IF ~isThisType[transaction.type] THEN categories
                   ELSE IF indexOfKey(categories, transaction.category) = 0
                   THEN Append(categories, [key |-> transaction.category,
                                            amount |-> transaction.amount])
                   ELSE [categories EXCEPT
                            ![indexOfKey(categories, transaction.category)].amount =
                                @ + transaction.amount]
         IN  categoriesOf(Tail(transactions), isThisType, c1)

\* Array.prototype.sort((a, b) => b.amount - a.amount): stable, amount descending
RECURSIVE sortByAmountDesc(_)
sortByAmountDesc(slices) ==
    IF slices = <<>> THEN <<>>
    ELSE LET top   == Max({slices[i].amount : i \in 1..Len(slices)})
             first == Min({i \in 1..Len(slices) : slices[i].amount = top})
         IN  <<slices[first]>>
             \o sortByAmountDesc(SubSeq(slices, 1, first - 1)
                                 \o SubSeq(slices, first + 1, Len(slices)))

\* the array index a property key denotes, -1 if it denotes none; of the
\* category names of the model only '7' and '12' are canonical numeric strings
arrayIndexOf(key) ==
    CASE key = "7"  -> 7
      [] key = "12" -> 12
      [] OTHER      -> 0 - 1

\* Object.entries: the array-index keys first, in ascending numeric order, then
\* the other keys in the order of their creation
objectEntries(entries) ==
    LET RECURSIVE ascending(_)
        ascending(I) ==
            IF I = {} THEN <<>>
            ELSE LET i == CHOOSE x \in I : \A y \in I :
                              arrayIndexOf(entries[x].key) <= arrayIndexOf(entries[y].key)
                 IN  <<entries[i]>> \o ascending(I \ {i})
    IN  ascending({i \in 1..Len(entries) : arrayIndexOf(entries[i].key) >= 0})
        \o SelectSeq(entries, LAMBDA entry : arrayIndexOf(entry.key) < 0)

formatCategories(categories, total) ==
    LET entries == objectEntries(categories)
    IN  sortByAmountDesc([i \in 1..Len(entries) |->
            [category   |-> entries[i].key,
             amount     |-> entries[i].amount,
             percentage |-> IF total > 0 THEN roundPercent(entries[i].amount, total) ELSE 0]])

\* calculateCategoryBreakdown: every type but 'income' is counted as expense
calculateCategoryBreakdown(transactions) ==
    LET types == {transactions[i].type : i \in 1..Len(transactions)} \cup {"income", "expense"}
        incomeCategories  == categoriesOf(transactions, [t \in types |-> t = "income"], <<>>)
        expenseCategories == categoriesOf(transactions, [t \in types |-> t # "income"], <<>>)
        totalIncome   == reduceSum([i \in 1..Len(incomeCategories) |-> incomeCategories[i].amount])
        totalExpenses == reduceSum([i \in 1..Len(expenseCategories) |-> expenseCategories[i].amount])
    IN  [income  |-> formatCategories(incomeCategories, totalIncome),
         expense |-> formatCategories(expenseCategories, totalExpenses)]

(***************************************************************************)
(* Period resolution.                                                      *)
(***************************************************************************)
\* a fifth token let through to the switch's default branch (C11's mutant)
validPeriods_lenient == {"7d", "30d", "90d", "1y", "5d"}

\* const validPeriods = ['7d', '30d', '90d', '1y']
validPeriods == {"7d", "30d", "90d", "1y"}

\* '1y' taken as 366 days (C10's mutant)
getDateRanges_leapYear(period, now) ==
    LET startDate ==
            CASE period = "7d"  -> minusDays(now, 7)
              [] period = "30d" -> minusDays(now, 30)
              [] period = "90d" -> minusDays(now, 90)
              [] period = "1y"  -> minusDays(now, 366)
              [] OTHER          -> minusDays(now, 30)
    IN  [start |-> toISOString(startDate), end |-> toISOString(now)]

\* getDateRanges (analytics): the switch on the period token
getDateRanges(period, now) ==
    LET startDate ==
            CASE period = "7d"  -> minusDays(now, 7)
              [] period = "30d" -> minusDays(now, 30)
              [] period = "90d" -> minusDays(now, 90)
              [] period = "1y"  -> minusDays(now, 365)
              [] OTHER          -> minusDays(now, 30)
    IN  [start |-> toISOString(startDate), end |-> toISOString(now)]

\* the same switch, written out again in getTransactionsByPeriod
periodStartDate(period, now) ==
    CASE period = "7d"  -> minusDays(now, 7)
      [] period = "30d" -> minusDays(now, 30)
      [] period = "90d" -> minusDays(now, 90)
      [] period = "1y"  -> minusDays(now, 365)
      [] OTHER          -> minusDays(now, 30)

\* getMonthRanges: current and previous calendar month of the host's local time
getMonthRanges(now, zone) ==
    LET y == getFullYear(now, zone)
        m == getMonth(now, zone)
        currentMonthStart == newDateLocal(y, m, 1, 0, 0, 0, zone)
        currentMonthEnd   == newDateLocal(y, m + 1, 0, 23, 59, 59, zone)
        prevMonthStart    == newDateLocal(y, m - 1, 1, 0, 0, 0, zone)
        prevMonthEnd      == newDateLocal(y, m, 0, 23, 59, 59, zone)
    IN  [current  |-> [start |-> toISOString(currentMonthStart),
                       end   |-> toISOString(currentMonthEnd)],
         previous |-> [start |-> toISOString(prevMonthStart),
                       end   |-> toISOString(prevMonthEnd)]]

(***************************************************************************)
(* Trend / health scoring.                                                 *)
(***************************************************************************)
calculateHealthScore(income, expenses) ==
    IF income = 0 THEN (IF expenses = 0 THEN 100 ELSE 0)
    ELSE LET ratio   == divide(income - expenses, income)
             rounded == mathRound(multiplyBy(plusOne(ratio), 50))
             capped  == IF rounded < 100 THEN rounded ELSE 100
         IN  IF capped > 0 THEN capped ELSE 0

calculatePercentageChange(current, previous) ==
    IF previous = 0 THEN (IF current > 0 THEN 100 ELSE 0)
    ELSE mathRound(multiplyBy(divide(current - previous, previous), 100))

\* 'up' only for a strictly positive change (C17's mutant)
trendOf_strict(change) == IF change > 0 THEN "up" ELSE "down"

\* trend: change >= 0 ? 'up' : 'down'
trendOf(change) == IF change >= 0 THEN "up" ELSE "down"

(***************************************************************************)
(* The notification service's alert rule.                                  *)
(***************************************************************************)
calculateExpenseRatio(income, expenses) ==
    IF income = 0 THEN (IF expenses > 0 THEN 100 ELSE 0)
    ELSE mathRound(multiplyBy(divide(expenses, income), 100))

shouldSendAlert(expenseRatio) == expenseRatio >= 80

\* sendFinancialAlert(data): the alert is published to the user's channel.
\* It is exported by the service and called by no handler of the repository.
sendFinancialAlert(data) == alerts' = alerts \cup {data.userId}

(***************************************************************************)
(* The store's Query on UserIdIndex: the user's items that pass the filter, *)
(* in an order the index does not fix.                                     *)
(***************************************************************************)
Orderings(S) ==
    {s \in [1..Cardinality(S) -> S] : \A i, j \in 1..Cardinality(S) : i # j => s[i] # s[j]}

\* FilterExpression '#date >= :startDate'
queryFrom(sub, startDate) ==
    Orderings({t \in txns : t.userId = sub /\ StrLeq(startDate, t.date)})

\* the query of an index that is not keyed by the user (C21's mutant)
queryBetween_anyUser(sub, startDate, endDate) ==
    Orderings({t \in txns : Between(t.date, startDate, endDate)})

\* FilterExpression '#date BETWEEN :startDate AND :endDate'
queryBetween(sub, startDate, endDate) ==
    Orderings({t \in txns : t.userId = sub /\ Between(t.date, startDate, endDate)})

(***************************************************************************)
(* getTransactionsByPeriod                                                 *)
(***************************************************************************)
getTransactionsByPeriod(p, sub, period) ==
    /\ pc[p] = "idle"
    /\ IF sub = NoSub
       THEN Respond(p, [op |-> "period", status |-> 400, error |-> "User ID not found in token"])
       ELSE IF period \notin validPeriods
       THEN Respond(p, [op |-> "period", status |-> 400, period |-> period,
                        error |-> "Invalid period. Use: 7d, 30d, 90d, or 1y"])
       ELSE Goto(p, "period_query",
                 [op |-> "period", userId |-> sub, period |-> period, now |-> clock,
                  startDate |-> periodStartDate(period, clock)])
    /\ UNCHANGED <<users, txns, nextId, clock, tz, anchor, fnIn, fnOut, alerts>>

\* await QueryCommand; the summary; res.json
periodQuery(p) ==
    /\ pc[p] = "period_query"
    /\ \E transactions \in queryFrom(frame[p].userId, toISOString(frame[p].startDate)) :
          Respond(p, [op |-> "period", status |-> 200,
                      userId |-> frame[p].userId,
                      now |-> frame[p].now,
                      period |-> frame[p].period,
                      dateRange |-> [from |-> toISOString(frame[p].startDate),
                                     to   |-> toISOString(frame[p].now)],
                      summary |-> summaryOf(transactions),
                      transactions |-> transactions,
                      count |-> Len(transactions)])
    /\ UNCHANGED <<users, txns, nextId, clock, tz, anchor, fnIn, fnOut, alerts>>

(***************************************************************************)
(* getAnalytics                                                            *)
(***************************************************************************)
\* the series seeded with the current balance itself (C3's mutant)
chartSeed_currentBalance(currentBalance, netAmount) == currentBalance

\* generateChartData(groupedData, currentBalance - netAmount)
chartSeed(currentBalance, netAmount) == currentBalance - netAmount

getAnalytics(p, sub, period) ==
    /\ pc[p] = "idle"
    /\ IF sub = NoSub
       THEN Respond(p, [op |-> "analytics", status |-> 400, error |-> "User ID not found in token"])
       ELSE IF period \notin validPeriods
       THEN Respond(p, [op |-> "analytics", status |-> 400, period |-> period,
                        error |-> "Invalid period. Use: 7d, 30d, 90d, or 1y"])
       ELSE Goto(p, "analytics_user",
                 [op |-> "analytics", userId |-> sub, period |-> period, now |-> clock,
                  dateRange |-> getDateRanges(period, clock), currentBalance |-> 0])
    /\ UNCHANGED <<users, txns, nextId, clock, tz, anchor, fnIn, fnOut, alerts>>

\* a lookup that creates the item it does not find (C25's mutant)
analyticsUser_upsert(p) ==
    /\ pc[p] = "analytics_user"
    /\ users' = [users EXCEPT ![frame[p].userId] = setStartingBalance(@, 0)]
    /\ Goto(p, "analytics_query",
            [frame[p] EXCEPT !.currentBalance = storedBalance(users[frame[p].userId])])
    /\ UNCHANGED <<txns, nextId, clock, tz, anchor, fnIn, fnOut, alerts>>

\* await GetCommand(USERS)
analyticsUser(p) ==
    /\ pc[p] = "analytics_user"
    /\ Goto(p, "analytics_query",
            [frame[p] EXCEPT !.currentBalance = storedBalance(users[frame[p].userId])])
    /\ UNCHANGED <<users, txns, nextId, clock, tz, anchor, fnIn, fnOut, alerts>>

\* await QueryCommand; summary, chart data, category breakdown; res.json.
\* currentBalance and transactions are the handler's locals, kept with the response
analyticsQuery(p) ==
    /\ pc[p] = "analytics_query"
    /\ \E transactions \in queryBetween(frame[p].userId, frame[p].dateRange.start,
                                        frame[p].dateRange.end) :
          LET summary     == summaryOf(transactions)
              groupedData == groupTransactionsByDate(transactions)
              chartData   == generateChartData(groupedData,
                                  chartSeed(frame[p].currentBalance, summary.netAmount))
          IN  Respond(p, [op |-> "analytics", status |-> 200,
                          userId |-> frame[p].userId,
                          now |-> frame[p].now,
                          period |-> frame[p].period,
                          dateRange |-> [from |-> frame[p].dateRange.start,
                                         to   |-> frame[p].dateRange.end],
                          summary |-> summary,
                          chartData |-> chartData,
                          categoryBreakdown |-> calculateCategoryBreakdown(transactions),
                          currentBalance |-> frame[p].currentBalance,
                          transactions |-> transactions])
    /\ UNCHANGED <<users, txns, nextId, clock, tz, anchor, fnIn, fnOut, alerts>>

(***************************************************************************)
(* getDashboard                                                            *)
(***************************************************************************)
getDashboard(p, sub) ==
    /\ pc[p] = "idle"
    /\ IF sub = NoSub
       THEN Respond(p, [op |-> "dashboard", status |-> 400, error |-> "User ID not found in token"])
       ELSE Goto(p, "dashboard_user",
                 [op |-> "dashboard", userId |-> sub, now |-> clock,
                  ranges |-> getMonthRanges(clock, tz),
                  currentBalance |-> 0, currentTransactions |-> <<>>])
    /\ UNCHANGED <<users, txns, nextId, clock, tz, anchor, fnIn, fnOut, alerts>>

\* await GetCommand(USERS)
dashboardUser(p) ==
    /\ pc[p] = "dashboard_user"
    /\ Goto(p, "dashboard_current",
            [frame[p] EXCEPT !.currentBalance = storedBalance(users[frame[p].userId])])
    /\ UNCHANGED <<users, txns, nextId, clock, tz, anchor, fnIn, fnOut, alerts>>

\* await QueryCommand (current month)
dashboardCurrent(p) ==
    /\ pc[p] = "dashboard_current"
    /\ \E transactions \in queryBetween(frame[p].userId, frame[p].ranges.current.start,
                                        frame[p].ranges.current.end) :
          Goto(p, "dashboard_previous", [frame[p] EXCEPT !.currentTransactions = transactions])
    /\ UNCHANGED <<users, txns, nextId, clock, tz, anchor, fnIn, fnOut, alerts>>

\* await QueryCommand (previous month); the metrics; res.json.
\* The transactions of the two queries are the handler's locals, kept with the response
dashboardPrevious(p) ==
    /\ pc[p] = "dashboard_previous"
    /\ \E previousTransactions \in queryBetween(frame[p].userId, frame[p].ranges.previous.start,
                                                frame[p].ranges.previous.end) :
          LET currentTransactions == frame[p].currentTransactions
              currentBalance   == frame[p].currentBalance
              currentIncome    == sumOfType(currentTransactions, "income")
              currentExpenses  == sumOfType(currentTransactions, "expense")
              previousIncome   == sumOfType(previousTransactions, "income")
              previousExpenses == sumOfType(previousTransactions, "expense")
              currentHealthScore  == calculateHealthScore(currentIncome, currentExpenses)
              previousHealthScore == calculateHealthScore(previousIncome, previousExpenses)
              incomeChange      == calculatePercentageChange(currentIncome, previousIncome)
              expenseChange     == calculatePercentageChange(currentExpenses, previousExpenses)
              healthScoreChange == calculatePercentageChange(currentHealthScore, previousHealthScore)
              estimatedPreviousBalance == currentBalance - (currentIncome - currentExpenses)
              balanceChange == calculatePercentageChange(currentBalance, estimatedPreviousBalance)
          IN  Respond(p, [op |-> "dashboard", status |-> 200,
                          userId |-> frame[p].userId,
                          now |-> frame[p].now,
                          dashboard |->
                            [monthlyIncome  |-> [value |-> currentIncome,
                                                 percentageChange |-> incomeChange,
                                                 trend |-> trendOf(incomeChange)],
                             monthlyExpense |-> [value |-> currentExpenses,
                                                 percentageChange |-> expenseChange,
                                                 trend |-> trendOf(expenseChange)],
                             currentBalance |-> [value |-> currentBalance,
                                                 percentageChange |-> balanceChange,
                                                 trend |-> trendOf(balanceChange)],
                             healthScore    |-> [value |-> currentHealthScore,
                                                 percentageChange |-> healthScoreChange,
                                                 trend |-> trendOf(healthScoreChange)]],
                          period |-> frame[p].ranges,
                          currentTransactions |-> currentTransactions,
                          previousTransactions |-> previousTransactions])
    /\ UNCHANGED <<users, txns, nextId, clock, tz, anchor, fnIn, fnOut, alerts>>

(***************************************************************************)
(* Inputs of the ledger specifications.                                    *)
(***************************************************************************)
Subs == Users \cup {NoSub}

\* request bodies of createTransaction: three that pass validation (one of each
\* type without a category, one with), and one for each validation error
LedgerBodies ==
    { [type |-> "income",   amount |-> 2, amountType |-> "number", description |-> "pay",  category |-> Missing, date |-> NoDate],
      [type |-> "expense",  amount |-> 1, amountType |-> "number", description |-> "rent", category |-> Missing, date |-> NoDate],
      [type |-> "expense",  amount |-> 2, amountType |-> "number", description |-> "food", category |-> "Food",  date |-> NoDate],
      [type |-> "transfer", amount |-> 1, amountType |-> "number", description |-> "rent", category |-> Missing, date |-> NoDate],
      [type |-> "income",   amount |-> 0, amountType |-> "number", description |-> "pay",  category |-> Missing, date |-> NoDate],
      [type |-> "expense",  amount |-> 0 - 1, amountType |-> "number", description |-> "rent", category |-> Missing, date |-> NoDate],
      [type |-> "income",   amount |-> 2, amountType |-> "string", description |-> "pay",  category |-> Missing, date |-> NoDate],
      [type |-> "income",   amount |-> 1, amountType |-> "number", description |-> Missing, category |-> Missing, date |-> NoDate] }

RegisterBodies ==
    { [email |-> "a@b.c", hasBalance |-> TRUE,  startingBalance |-> 5],
      [email |-> "a@b.c", hasBalance |-> FALSE, startingBalance |-> 0],
      [email |-> Missing, hasBalance |-> TRUE,  startingBalance |-> 5] }

Ids == (1..MaxTxns) \cup {NoId}

\* 2024-03-15T12:00:00.000Z
LedgerClock == UTC(2024, 3, 15, 12, 0, 0, 0)

\* the host's time zone: the specifications run the host in UTC
HostZones == {0}

\* empty tables, no request in flight
BaseInit ==
    /\ users = [u \in Users |-> NoItem]
    /\ txns = {}
    /\ nextId = 1
    /\ tz \in HostZones
    /\ pc = [p \in Procs |-> "idle"]
    /\ frame = [p \in Procs |-> NoFrame]
    /\ resp = [p \in Procs |-> NoResp]
    /\ anchor = [u \in Users |-> 0]
    /\ fnOut = [op |-> "none"]
    /\ alerts = {}

Init ==
    /\ BaseInit
    /\ clock = LedgerClock
    /\ fnIn = [transactions |-> <<>>, startingBalance |-> 0]

\* one step of a createTransaction handler in slot p
CreateStep(p, requests) ==
    \/ \E r \in requests : createTransaction(p, r[1], r[2])
    \/ createPut(p)
    \/ createAdd(p)
    \/ createSet(p)
    \/ createGet(p)

DeleteStep(p, subs, ids) ==
    \/ \E sub \in subs, id \in ids : deleteTransaction(p, sub, id)
    \/ deleteGet(p)
    \/ deleteDel(p)
    \/ deleteAdd(p)
    \/ deleteRead(p)

RegisterStep(p, subs, bodies) ==
    \/ \E sub \in subs, body \in bodies : register(p, sub, body)
    \/ registerPut(p)

(***************************************************************************)
(* SeqSpec: the ledger with requests served one at a time.                 *)
(***************************************************************************)
SeqNext ==
    /\ \A q \in Procs \ {1} : pc[q] = "idle"
    /\ \/ CreateStep(1, Subs \X LedgerBodies)
       \/ DeleteStep(1, Subs, Ids)
       \/ RegisterStep(1, Subs, RegisterBodies)

SeqSpec == Init /\ [][SeqNext]_vars

\* the same requests, every handler running on to its response: the event loop
\* resumes a handler whenever the await it is suspended at settles
SeqFairSpec == SeqSpec /\ WF_vars(SeqNext)

(***************************************************************************)
(* Spec: createTransaction and register requests served concurrently, the  *)
(* awaits of the handlers in different slots interleaved in any order.     *)
(***************************************************************************)
ConcBodies ==
    {b \in LedgerBodies : /\ b.description # Missing /\ b.amountType = "number" /\ b.amount > 0
                          /\ b.category = Missing}

\* the concurrent requests are those of one user
ConcSubs == {"u1"}

Next ==
    \E p \in Procs :
        \/ CreateStep(p, ConcSubs \X ConcBodies)
        \/ RegisterStep(p, ConcSubs, {b \in RegisterBodies : b.email # Missing /\ b.hasBalance})

Spec == Init /\ [][Next]_vars

(***************************************************************************)
(* ReadSpec: the aggregation endpoints.  createTransaction and register    *)
(* requests of both users and the period summary, analytics and dashboard  *)
(* requests of user u1, served one at a time, while the clock advances.    *)
(***************************************************************************)
\* the instants new Date() returns, in order: 2024-01-01T00:00:00.007Z and
\* 2024-03-15T12:00:00.000Z
ClockTicks == <<UTC(2024, 1, 1, 0, 0, 0, 7), UTC(2024, 3, 15, 12, 0, 0, 0)>>

\* dates sent by the client: exactly 7 days before the second instant, the day
\* after it, and within the last second of February
DateFrom7d == toISOString(UTC(2024, 3, 8, 12, 0, 0, 0))

DateTomorrow == toISOString(UTC(2024, 3, 16, 0, 0, 0, 0))

DateEndOfFebruary == toISOString(UTC(2024, 2, 29, 23, 59, 59, 500))

ReadBodies ==
    { [type |-> "income",  amount |-> 2, amountType |-> "number", description |-> "pay",  category |-> Missing, date |-> NoDate],
      [type |-> "expense", amount |-> 1, amountType |-> "number", description |-> "rent", category |-> Missing, date |-> DateFrom7d],
      [type |-> "income",  amount |-> 2, amountType |-> "number", description |-> "pay",  category |-> Missing, date |-> DateTomorrow],
      [type |-> "expense", amount |-> 1, amountType |-> "number", description |-> "rent", category |-> Missing, date |-> DateEndOfFebruary] }

\* the createTransaction requests: all of the bodies for u1, one for u2
ReadCreates == ({"u1"} \X ReadBodies) \cup ({"u2"} \X {b \in ReadBodies : b.date = NoDate})

ReadPeriods == validPeriods \cup {"5d"}

ReadInit ==
    /\ BaseInit
    /\ clock = ClockTicks[1]
    /\ fnIn = [transactions |-> <<>>, startingBalance |-> 0]

\* time passes
Tick ==
    /\ \E i \in 1..(Len(ClockTicks) - 1) : clock = ClockTicks[i] /\ clock' = ClockTicks[i + 1]
    /\ UNCHANGED <<users, txns, nextId, tz, pc, frame, resp, anchor, fnIn, fnOut, alerts>>

PeriodStep(p, subs) ==
    \/ \E sub \in subs, period \in ReadPeriods : getTransactionsByPeriod(p, sub, period)
    \/ periodQuery(p)

AnalyticsStep(p, subs) ==
    \/ \E sub \in subs, period \in ReadPeriods : getAnalytics(p, sub, period)
    \/ analyticsUser(p)
    \/ analyticsQuery(p)

DashboardStep(p, subs) ==
    \/ \E sub \in subs : getDashboard(p, sub)
    \/ dashboardUser(p)
    \/ dashboardCurrent(p)
    \/ dashboardPrevious(p)

ReadNext ==
    \/ CreateStep(1, ReadCreates)
    \/ RegisterStep(1, {"u1"}, {b \in RegisterBodies : b.email # Missing /\ b.hasBalance})
    \/ PeriodStep(1, {"u1"})
    \/ AnalyticsStep(1, {"u1"})
    \/ DashboardStep(1, {"u1"})
    \/ Tick

ReadSpec == ReadInit /\ [][ReadNext]_vars

(***************************************************************************)
(* PureSpec: the pure builders applied to every transaction list of up to  *)
(* MaxLen transactions, in every order, and every starting balance.        *)
(***************************************************************************)
PureTxns ==
    LET T(type, amount, category, y, m, d, h) ==
            [type |-> type, amount |-> amount, category |-> category,
             date |-> toISOString(UTC(y, m, d, h, 0, 0, 0))]
    IN  { [type |-> "income", amount |-> 1, category |-> "A",
           date |-> toISOString(UTC(2023, 12, 31, 23, 59, 59, 999))],
          T("income",  2, "B", 2024, 1, 2, 0),
          T("income",  1, "B", 2024, 1, 10, 10),
          T("income",  3, "A", 2024, 1, 10, 23),
          T("income",  2, "A", 2024, 1, 2, 0),
          [type |-> "expense", amount |-> 1, category |-> "A",
           date |-> toISOString(UTC(2023, 12, 31, 23, 59, 59, 999))],
          T("expense", 2, "B", 2024, 1, 2, 0),
          T("expense", 1, "B", 2024, 1, 10, 10),
          T("expense", 3, "C", 2024, 1, 10, 23),
          T("expense", 1, "C", 2024, 1, 2, 0) }

PureBalances == {0 - 2, 0, 5}

SeqsUpTo(S, n) == UNION {[1..k -> S] : k \in 0..n}

PureInit ==
    /\ BaseInit
    /\ clock = LedgerClock
    /\ fnIn \in [transactions : SeqsUpTo(PureTxns, MaxLen), startingBalance : PureBalances]

\* the builders applied to the input, as getAnalytics applies them
applyBuilders ==
    /\ fnOut.op = "none"
    /\ fnOut' = [op |-> "done",
                 summary |-> summaryOf(fnIn.transactions),
                 groupedData |-> groupTransactionsByDate(fnIn.transactions),
                 chartData |-> generateChartData(groupTransactionsByDate(fnIn.transactions),
                                                 fnIn.startingBalance),
                 categoryBreakdown |-> calculateCategoryBreakdown(fnIn.transactions)]
    /\ UNCHANGED <<users, txns, nextId, clock, tz, pc, frame, resp, anchor, fnIn, alerts>>

PureNext == applyBuilders

PureSpec == PureInit /\ [][PureNext]_vars

(***************************************************************************)
(* BreakdownSpec: calculateCategoryBreakdown applied to every list of up to *)
(* MaxLen of these transactions, in every order.                           *)
(***************************************************************************)
BreakdownTxns ==
    { [type |-> "expense", amount |-> 23, category |-> "A"],
      [type |-> "expense", amount |-> 17, category |-> "B"],
      [type |-> "expense", amount |-> 17, category |-> "7"],
      [type |-> "expense", amount |-> 1,  category |-> "A"],
      [type |-> "expense", amount |-> 1,  category |-> "B"],
      [type |-> "expense", amount |-> 1,  category |-> "12"],
      [type |-> "income",  amount |-> 1,  category |-> "A"],
      [type |-> "income",  amount |-> 2,  category |-> "B"],
      [type |-> "income",  amount |-> 1,  category |-> "C"] }

BreakdownInit ==
    /\ BaseInit
    /\ clock = LedgerClock
    /\ fnIn \in [transactions : SeqsUpTo(BreakdownTxns, MaxLen), startingBalance : {0}]

applyBreakdown ==
    /\ fnOut.op = "none"
    /\ fnOut' = [op |-> "done",
                 categoryBreakdown |-> calculateCategoryBreakdown(fnIn.transactions)]
    /\ UNCHANGED <<users, txns, nextId, clock, tz, pc, frame, resp, anchor, fnIn, alerts>>

BreakdownNext == applyBreakdown

BreakdownSpec == BreakdownInit /\ [][BreakdownNext]_vars

(***************************************************************************)
(* The ledger claims.                                                      *)
(***************************************************************************)
txnsOf(u) == {t \in txns : t.userId = u}

\* sign(income) = +1, sign(expense) = -1
signedAmount(t) == IF t.type = "income" THEN t.amount ELSE 0 - t.amount

RECURSIVE SumSigned(_)
SumSigned(S) ==
    IF S = {} THEN 0
    ELSE LET t == CHOOSE x \in S : TRUE IN signedAmount(t) + SumSigned(S \ {t})

AllIdle == \A p \in Procs : pc[p] = "idle"

\* C1: with requests served one at a time and no storage failure, whenever no
\* request is in flight every user's stored balance is the balance the user
\* started with plus the stored income amounts minus the stored expense amounts.
C1_BalanceIsAnchorPlusLedger ==
    AllIdle =>
        \A u \in Users : storedBalance(users[u]) = anchor[u] + SumSigned(txnsOf(u))

\* C1's case: a registered user (B0 = 5) has created two transactions and deleted
\* one of them, after a rejected request of another user
C1_Witness ==
    /\ AllIdle
    /\ resp[1].op = "delete" /\ resp[1].status = 200
    /\ anchor["u1"] = 5
    /\ nextId = 3
    /\ Cardinality(txnsOf("u1")) = 1
    /\ storedBalance(users["u1"]) # 5

\* C2: concurrent createTransaction requests lose no balance update: once every
\* handler in flight is past its balance update, each user's stored balance is
\* the initial balance plus the signed amount of every transaction created, and
\* when all have answered every accepted request has stored its transaction.
C2_NoLostUpdate ==
    /\ (\A p \in Procs : pc[p] \notin {"create_add", "create_set"}) =>
          \A u \in Users : storedBalance(users[u]) = anchor[u] + SumSigned(txnsOf(u))
    /\ AllIdle => Cardinality(txns) = nextId - 1

\* C2's case: two creates of the same registered user have both run their
\* storage steps interleaved and both are about to answer 201
C2_Witness ==
    /\ pc[1] = "create_get" /\ pc[2] = "create_get"
    /\ frame[1].userId = "u1" /\ frame[2].userId = "u1"
    /\ anchor["u1"] = 5
    /\ frame[1].transaction.type = "income" /\ frame[2].transaction.type = "expense"
    /\ storedBalance(users["u1"]) = 5 + 2 - 1

(***************************************************************************)
(* ScoreSpec: the scoring functions applied to every pair of integers of    *)
(* magnitude up to MaxAmount.                                              *)
(***************************************************************************)
ScoreNumbers == (0 - MaxAmount)..MaxAmount

ScoreInit ==
    /\ BaseInit
    /\ clock = LedgerClock
    /\ fnIn \in [args : ScoreNumbers \X ScoreNumbers]

\* calculateHealthScore(income, expenses) on totals, which are never negative
applyHealthScore ==
    /\ fnOut.op = "none"
    /\ fnIn.args[1] >= 0 /\ fnIn.args[2] >= 0
    /\ fnOut' = [op |-> "calculateHealthScore",
                 value |-> calculateHealthScore(fnIn.args[1], fnIn.args[2])]
    /\ UNCHANGED <<users, txns, nextId, clock, tz, pc, frame, resp, anchor, fnIn, alerts>>

\* calculatePercentageChange(current, previous)
applyPercentageChange ==
    /\ fnOut.op = "none"
    /\ fnOut' = [op |-> "calculatePercentageChange",
                 value |-> calculatePercentageChange(fnIn.args[1], fnIn.args[2])]
    /\ UNCHANGED <<users, txns, nextId, clock, tz, pc, frame, resp, anchor, fnIn, alerts>>

\* calculateExpenseRatio(income, expenses) on totals, and shouldSendAlert of it
applyExpenseRatio ==
    /\ fnOut.op = "none"
    /\ fnIn.args[1] >= 0 /\ fnIn.args[2] >= 0
    /\ LET expenseRatio == calculateExpenseRatio(fnIn.args[1], fnIn.args[2])
       IN  fnOut' = [op |-> "calculateExpenseRatio", value |-> expenseRatio,
                     alert |-> shouldSendAlert(expenseRatio)]
    /\ UNCHANGED <<users, txns, nextId, clock, tz, pc, frame, resp, anchor, fnIn, alerts>>

ScoreNext == applyHealthScore \/ applyPercentageChange \/ applyExpenseRatio

ScoreSpec == ScoreInit /\ [][ScoreNext]_vars

(***************************************************************************)
(* The aggregation claims.                                                 *)
(***************************************************************************)
\* sum of f[i] over the indices in I
RECURSIVE SumAt(_, _)
SumAt(f, I) ==
    IF I = {} THEN 0 ELSE LET i == CHOOSE x \in I : TRUE IN f[i] + SumAt(f, I \ {i})

\* total of the amounts of the transactions of a list that satisfy a test
TotalWhere(transactions, Test(_)) ==
    SumAt([i \in 1..Len(transactions) |-> transactions[i].amount],
          {i \in 1..Len(transactions) : Test(transactions[i])})

IsIncome(t) == t.type = "income"

IsExpense(t) == t.type = "expense"

NetOf(transactions) == TotalWhere(transactions, IsIncome) - TotalWhere(transactions, IsExpense)

\* the calendar day of a stored date: its first ten code units, YYYY-MM-DD
DayOf(date) == SubSeq(date, 1, 10)

NumberAt(str, from, to) ==
    LET RECURSIVE Value(_, _)
        Value(i, acc) == IF i > to THEN acc ELSE Value(i + 1, acc * 10 + (str[i] - 48))
    IN  Value(from, 0)

\* days since the epoch of a YYYY-MM-DD day key
DayNumber(key) == DaysFromCivil(NumberAt(key, 1, 4), NumberAt(key, 6, 7), NumberAt(key, 9, 10))

\* the instant an ISO string YYYY-MM-DDTHH:mm:ss.sssZ denotes
InstantOf(iso) ==
    [sec |-> DayNumber(DayOf(iso)) * 86400 + NumberAt(iso, 12, 13) * 3600
             + NumberAt(iso, 15, 16) * 60 + NumberAt(iso, 18, 19),
     ms  |-> NumberAt(iso, 21, 23)]

Answered(p, op) == resp[p].op = op /\ resp[p].status = 200

C5_SeriesAscendingRunningFold ==
    fnOut.op = "done" =>
        LET c == fnOut.chartData
        IN  /\ \A i \in 1..Len(c) : c[i].net = c[i].income - c[i].expense
            /\ \A i \in 1..Len(c) :
                  c[i].cumulativeBalance =
                      (IF i = 1 THEN fnIn.startingBalance ELSE c[i - 1].cumulativeBalance)
                      + c[i].net
            /\ \A i \in 1..(Len(c) - 1) : DayNumber(c[i].date) < DayNumber(c[i + 1].date)

\* C5's case: three transactions supplied latest day first, across a year's end
C5_Witness ==
    /\ fnOut.op = "done"
    /\ Len(fnIn.transactions) = 3
    /\ Len(fnOut.chartData) = 3
    /\ DayNumber(DayOf(fnIn.transactions[1].date)) > DayNumber(DayOf(fnIn.transactions[2].date))
    /\ DayNumber(DayOf(fnIn.transactions[2].date)) > DayNumber(DayOf(fnIn.transactions[3].date))

\* C6: the daily series has exactly one point for each calendar day on which an
\* input transaction is dated and none for any other day; a point's income and
\* expense are the totals of that day's income and expense amounts; an empty
\* input gives an empty series.
C6_OnePointPerDay ==
    fnOut.op = "done" =>
        LET c    == fnOut.chartData
            in   == fnIn.transactions
            days == {DayOf(in[i].date) : i \in 1..Len(in)}
            OnDayIncome(k)  == LET Test(t) == DayOf(t.date) = k /\ IsIncome(t)
                               IN  TotalWhere(in, Test)
            OnDayExpense(k) == LET Test(t) == DayOf(t.date) = k /\ IsExpense(t)
                               IN  TotalWhere(in, Test)
        IN  /\ {c[i].date : i \in 1..Len(c)} = days
            /\ Len(c) = Cardinality(days)
            /\ \A i \in 1..Len(c) : /\ c[i].income = OnDayIncome(c[i].date)
                                    /\ c[i].expense = OnDayExpense(c[i].date)
            /\ (in = <<>> => c = <<>>)

\* C6's case: three transactions, two of them on the same day at different times
C6_Witness ==
    /\ fnOut.op = "done"
    /\ Len(fnIn.transactions) = 3
    /\ fnIn.transactions[1].date # fnIn.transactions[3].date
    /\ DayOf(fnIn.transactions[1].date) = DayOf(fnIn.transactions[3].date)
    /\ Len(fnOut.chartData) = 2
    /\ fnOut.chartData[2].income = 4

\* C7: in a successful period-summary or analytics response the summary's
\* totalIncome, totalExpenses, netAmount and transactionCount are the income
\* total, the expense total, their difference and the number of the transactions
\* the query returned; for an empty result all four are 0 (and the status 200).
C7_SummaryTotals ==
    \A p \in Procs :
        (Answered(p, "period") \/ Answered(p, "analytics")) =>
            LET sm == resp[p].summary
                ts == resp[p].transactions
            IN  /\ sm.totalIncome = TotalWhere(ts, IsIncome)
                /\ sm.totalExpenses = TotalWhere(ts, IsExpense)
                /\ sm.netAmount = sm.totalIncome - sm.totalExpenses
                /\ sm.transactionCount = Len(ts)
                /\ ts = <<>> => sm = [totalIncome |-> 0, totalExpenses |-> 0,
                                      netAmount |-> 0, transactionCount |-> 0]

\* C7's case: a period summary over one income and one expense
C7_Witness ==
    \E p \in Procs :
        /\ Answered(p, "period")
        /\ resp[p].summary = [totalIncome |-> 2, totalExpenses |-> 1,
                              netAmount |-> 1, transactionCount |-> 2]

\* C8: when a period-summary or analytics request is answered, the transactions
\* counted are exactly the user's stored transactions dated within
\* [dateRange.from, dateRange.to], both ends included.
C8_CountedExactlyTheRange ==
    [][\A p \in Procs :
          (pc[p] \in {"period_query", "analytics_query"} /\ pc'[p] = "idle"
           /\ resp'[p].status = 200) =>
              Range(resp'[p].transactions) =
                  {t \in txns : /\ t.userId = resp'[p].userId
                                /\ Between(t.date, resp'[p].dateRange.from,
                                           resp'[p].dateRange.to)}]_vars

\* the last instant before t
MillisecondBefore(t) ==
    IF t.ms > 0 THEN [sec |-> t.sec, ms |-> t.ms - 1] ELSE [sec |-> t.sec - 1, ms |-> 999]

\* C9: when a dashboard request is answered, every stored transaction of the
\* user dated from the first instant of the previous calendar month to the last
\* instant of the current one is counted in exactly one of the current-month and
\* previous-month totals.
C9_MonthsCoverWithoutGap ==
    [][\A p \in Procs :
          (pc[p] = "dashboard_previous" /\ pc'[p] = "idle" /\ resp'[p].status = 200) =>
              LET now   == resp'[p].now
                  y     == getFullYear(now, tz)
                  m     == getMonth(now, tz)
                  first == toISOString(newDateLocal(y, m - 1, 1, 0, 0, 0, tz))
                  last  == toISOString(MillisecondBefore(newDateLocal(y, m + 1, 1, 0, 0, 0, tz)))
              IN  \A t \in txns :
                      (t.userId = resp'[p].userId /\ Between(t.date, first, last)) =>
                          (t \in Range(resp'[p].currentTransactions))
                              # (t \in Range(resp'[p].previousTransactions))]_vars

\* the days a period token stands for
DaysOfToken(period) ==
    CASE period = "7d" -> 7 [] period = "30d" -> 30 [] period = "90d" -> 90 [] period = "1y" -> 365

\* C10: in a successful period-summary or analytics response the range ends at
\* the instant of the request and starts exactly 7, 30, 90 or 365 days of 24
\* hours earlier, by the token, the same in both endpoints.
C10_RangeIsFixedDuration ==
    \A p \in Procs :
        (Answered(p, "period") \/ Answered(p, "analytics")) =>
            LET from == InstantOf(resp[p].dateRange.from)
                to   == InstantOf(resp[p].dateRange.to)
            IN  /\ to = resp[p].now
                /\ from.ms = to.ms
                /\ to.sec - from.sec = DaysOfToken(resp[p].period) * 24 * 60 * 60

\* C10's case: a 1y analytics request on 2024-03-15: the range starts 365 days
\* earlier, on 2023-03-16, across the leap day
C10_Witness ==
    \E p \in Procs :
        /\ Answered(p, "analytics")
        /\ resp[p].period = "1y"
        /\ resp[p].dateRange.from = toISOString(UTC(2023, 3, 16, 12, 0, 0, 0))
        /\ resp[p].dateRange.to = toISOString(UTC(2024, 3, 15, 12, 0, 0, 0))

(***************************************************************************)
(* Validation of the period token.                                         *)
(***************************************************************************)
AcceptedTokens == {"7d", "30d", "90d", "1y"}

InvalidPeriodAnswer(p) ==
    /\ resp[p].op \in {"period", "analytics"}
    /\ resp[p].status = 400
    /\ resp[p].error = "Invalid period. Use: 7d, 30d, 90d, or 1y"

\* C11: a period-summary or analytics request of an authenticated user with a
\* token other than 7d, 30d, 90d, 1y is answered 400 (invalid period) with no
\* summary, chart or breakdown; no handler gets to a storage read with such a
\* token and no 200 response is given for it (no default period is taken).
C11_InvalidPeriodRejected ==
    \A p \in Procs :
        /\ pc[p] \in {"period_query", "analytics_user", "analytics_query"} =>
              frame[p].period \in AcceptedTokens
        /\ (Answered(p, "period") \/ Answered(p, "analytics")) =>
              resp[p].period \in AcceptedTokens
        /\ InvalidPeriodAnswer(p) =>
              /\ resp[p].period \notin AcceptedTokens
              /\ DOMAIN resp[p] = {"op", "status", "period", "error"}
        /\ (resp[p].op \in {"period", "analytics"} /\ resp[p].status = 400
            /\ resp[p].error # "User ID not found in token") => InvalidPeriodAnswer(p)

\* C11's case: u1 has a transaction stored and asks the analytics for '5d'
C11_Witness ==
    \E p \in Procs :
        /\ InvalidPeriodAnswer(p)
        /\ resp[p].op = "analytics"
        /\ resp[p].period = "5d"
        /\ txnsOf("u1") # {}
        /\ pc[p] = "idle"

(***************************************************************************)
(* The category breakdown claims.                                          *)
(***************************************************************************)
\* the slices of one type in a breakdown
SlicesOf(breakdown, type) == IF type = "income" THEN breakdown.income ELSE breakdown.expense

\* total of the amounts of the transactions of one type
TotalOfType(transactions, type) ==
    LET Test(t) == t.type = type IN TotalWhere(transactions, Test)

\* pct is amount / total * 100 rounded to the nearest integer, a half rounded up:
\* pct - 1/2 <= 100 * amount / total < pct + 1/2
IsRoundedPercent(pct, amount, total) ==
    /\ 2 * total * pct - total <= 200 * amount
    /\ 200 * amount < 2 * total * pct + total

\* C12: every slice's percentage in the category breakdown is its amount over
\* the total of its type times 100, rounded to the nearest integer with a half
\* rounded up, and 0 when that total is 0.
C12_PercentageIsRoundedShare ==
    fnOut.op = "done" =>
        \A type \in {"income", "expense"} :
            LET slices == SlicesOf(fnOut.categoryBreakdown, type)
                total  == TotalOfType(fnIn.transactions, type)
            IN  \A i \in 1..Len(slices) :
                    IF total = 0 THEN slices[i].percentage = 0
                    ELSE IsRoundedPercent(slices[i].percentage, slices[i].amount, total)

FirstMetAt(transactions, type, category) ==
    Min({i \in 1..Len(transactions) :
            transactions[i].type = type /\ transactions[i].category = category})

\* C14: in the income and in the expense list of the category breakdown every
\* category of that type appears exactly once, with the sum of its
\* transactions' amounts; the slices are in descending order of amount, slices
\* of equal amounts in the order in which their categories were first met in
\* the input.
C14_SlicesSummedAndOrdered ==
    fnOut.op = "done" =>
        \A type \in {"income", "expense"} :
            LET in     == fnIn.transactions
                slices == SlicesOf(fnOut.categoryBreakdown, type)
                cats   == {in[i].category : i \in {j \in 1..Len(in) : in[j].type = type}}
                AmountOf(c) == LET Test(t) == t.type = type /\ t.category = c
                               IN  TotalWhere(in, Test)
            IN  /\ {slices[i].category : i \in 1..Len(slices)} = cats
                /\ Len(slices) = Cardinality(cats)
                /\ \A i \in 1..Len(slices) : slices[i].amount = AmountOf(slices[i].category)
                /\ \A i, j \in 1..Len(slices) :
                      i < j =>
                          \/ slices[i].amount > slices[j].amount
                          \/ /\ slices[i].amount = slices[j].amount
                             /\ FirstMetAt(in, type, slices[i].category)
                                    < FirstMetAt(in, type, slices[j].category)

(***************************************************************************)
(* The scoring claims.                                                     *)
(***************************************************************************)
\* r is num / den rounded to the nearest integer, a half rounded towards
\* +Infinity (den > 0): r - 1/2 <= num / den < r + 1/2
IsRounded(r, num, den) ==
    /\ 2 * den * r - den <= 2 * num
    /\ 2 * num < 2 * den * r + den

Clamp(v, lo, hi) == IF v < lo THEN lo ELSE IF v > hi THEN hi ELSE v

\* C15: for income >= 0 and expenses >= 0 the health score is 100 when both
\* are 0, 0 when only income is 0, and otherwise ((income - expenses) / income
\* + 1) * 50 rounded to the nearest integer and clamped to [0, 100]; so it is an
\* integer in 0..100, 50 when expenses equal a positive income and 100 when
\* expenses are 0 and income is positive.
C15_HealthScoreFormula ==
    fnOut.op = "calculateHealthScore" =>
        LET income   == fnIn.args[1]
            expenses == fnIn.args[2]
            score    == fnOut.value
        IN  /\ score \in 0..100
            /\ (income = 0 /\ expenses = 0) => score = 100
            /\ (income = 0 /\ expenses > 0) => score = 0
            /\ (income > 0 /\ expenses = income) => score = 50
            /\ (income > 0 /\ expenses = 0) => score = 100
            /\ income > 0 =>
                  \E r \in (0 - 50 * MaxAmount)..100 :
                      /\ IsRounded(r, (2 * income - expenses) * 50, income)
                      /\ score = Clamp(r, 0, 100)

\* C16: the percentage change is 100 when previous is 0 and current > 0, 0 when
\* previous is 0 and current <= 0, and otherwise (current - previous) / previous
\* * 100 rounded to the nearest integer; it is 0 for (0, 0) and 100 for (50, 0).
C16_PercentageChangeFormula ==
    fnOut.op = "calculatePercentageChange" =>
        LET current  == fnIn.args[1]
            previous == fnIn.args[2]
            change   == fnOut.value
        IN  /\ (previous = 0 /\ current > 0) => change = 100
            /\ (previous = 0 /\ current <= 0) => change = 0
            /\ previous > 0 => IsRounded(change, (current - previous) * 100, previous)
            /\ previous < 0 => IsRounded(change, (previous - current) * 100, 0 - previous)

\* C18: for income >= 0 and expenses >= 0 the expense ratio is 0 when both are
\* 0, 100 when only income is 0, and otherwise expenses / income * 100 rounded
\* to the nearest integer; an alert is due exactly when the ratio is >= 80.
C18_ExpenseRatioFormula ==
    fnOut.op = "calculateExpenseRatio" =>
        LET income   == fnIn.args[1]
            expenses == fnIn.args[2]
            ratio    == fnOut.value
        IN  /\ (income = 0 /\ expenses = 0) => ratio = 0
            /\ (income = 0 /\ expenses > 0) => ratio = 100
            /\ income > 0 => IsRounded(ratio, expenses * 100, income)
            /\ fnOut.alert = (ratio >= 80)

(***************************************************************************)
(* The dashboard claims.                                                   *)
(***************************************************************************)
DashboardMetrics == {"monthlyIncome", "monthlyExpense", "currentBalance", "healthScore"}

\* C17: in a dashboard response each of the four metrics is labelled "up"
\* exactly when its reported percentageChange is >= 0 and "down" otherwise; a
\* change of 0 is "up".
C17_TrendFollowsChange ==
    \A p \in Procs :
        Answered(p, "dashboard") =>
            \A m \in DashboardMetrics :
                LET metric == resp[p].dashboard[m]
                IN  /\ metric.trend \in {"up", "down"}
                    /\ metric.trend = "up" <=> metric.percentageChange >= 0

\* C17's case: one dashboard with a falling metric, an unchanged one and a
\* rising one
C17_Witness ==
    \E p \in Procs :
        /\ Answered(p, "dashboard")
        /\ resp[p].dashboard.healthScore.percentageChange < 0
        /\ resp[p].dashboard.healthScore.trend = "down"
        /\ resp[p].dashboard.monthlyIncome.percentageChange = 0
        /\ resp[p].dashboard.monthlyIncome.trend = "up"
        /\ resp[p].dashboard.monthlyExpense.percentageChange > 0
        /\ resp[p].dashboard.monthlyExpense.trend = "up"

(***************************************************************************)
(* The stored-transaction claims.                                          *)
(***************************************************************************)
WellFormed(t) ==
    /\ t.type \in {"income", "expense"}
    /\ t.amount > 0
    /\ t.category # Missing

Rejected(body) ==
    \/ body.type \notin {"income", "expense"}
    \/ body.amountType # "number"
    \/ body.amount <= 0
    \/ body.description = Missing

\* C20: every stored transaction has type income or expense, an amount > 0 and
\* a category; a create request of an authenticated user with an invalid type,
\* an amount that is not a positive number or no description is answered 400
\* and stores nothing,
\* and any other is stored with its own category or, having none, with
\* 'General Income' or 'General Expense' by its type.  (Only the slots whose
\* handler moved or answered are looked at: the others took no step.)
C20_StoredTransactionsWellFormed ==
    /\ [](\A t \in txns : WellFormed(t))
    /\ [][\A p \in Procs :
              (pc'[p] # pc[p] \/ resp'[p] # resp[p]) =>
              \A sub \in Users : \A body \in LedgerBodies :
              createTransaction(p, sub, body) =>
                  IF Rejected(body)
                  THEN /\ resp'[p].op = "create" /\ resp'[p].status = 400
                       /\ pc'[p] = "idle"
                       /\ txns' = txns /\ users' = users
                  ELSE /\ pc'[p] = "create_put"
                       /\ frame'[p].transaction.type = body.type
                       /\ frame'[p].transaction.amount = body.amount
                       /\ frame'[p].transaction.category =
                              (IF body.category # Missing THEN body.category
                               ELSE IF body.type = "income" THEN "General Income"
                               ELSE "General Expense")]_vars

\* C20's case: an income and an expense stored with the default categories, and
\* then a request with a non-positive amount turned down
C20_Witness ==
    /\ \E t \in txns : t.type = "income" /\ t.category = "General Income"
    /\ \E t \in txns : t.type = "expense" /\ t.category = "General Expense"
    /\ resp[1].op = "create" /\ resp[1].status = 400
    /\ resp[1].error = "Amount must be a positive number"
    /\ Cardinality(txns) = 2
(***************************************************************************)
(* The alert claim.                                                        *)
(***************************************************************************)
\* total of the amounts of a set of stored transactions
RECURSIVE AmountsOf(_)
AmountsOf(items) ==
    IF items = {} THEN 0
    ELSE LET t == CHOOSE x \in items : TRUE IN t.amount + AmountsOf(items \ {t})

\* the expense ratio of user u over the stored transactions
ExpenseRatioOf(u) ==
    LET own == {t \in txns : t.userId = u}
    IN  calculateExpenseRatio(AmountsOf({t \in own : IsIncome(t)}),
                              AmountsOf({t \in own : IsExpense(t)}))

\* slot p's create request for user u has stored its transaction and is about
\* to answer 201
CreateCompleting(p, u) ==
    /\ pc[p] = "create_get"
    /\ frame[p].userId = u

\* C19: whenever a create completes and the user's resulting expense ratio is
\* >= 80, a financial alert is eventually handed to the notification service
\* for that user; no alert is dispatched for a user whose ratio is below 80.
C19_AlertFollowsCreate ==
    /\ \A p \in Procs : \A u \in Users :
           (CreateCompleting(p, u) /\ shouldSendAlert(ExpenseRatioOf(u))) ~> (u \in alerts)
    /\ [][\A u \in Users :
              (u \in alerts' /\ u \notin alerts) => shouldSendAlert(ExpenseRatioOf(u))']_vars
(***************************************************************************)
(* IsolationSpec: the create and delete requests of both users and the     *)
(* period summary, analytics and dashboard requests of user u1, served one *)
(* at a time.                                                              *)
(***************************************************************************)
IsolationNext ==
    \/ CreateStep(1, Users \X ConcBodies)
    \/ DeleteStep(1, Users, 1..MaxTxns)
    \/ PeriodStep(1, {"u1"})
    \/ AnalyticsStep(1, {"u1"})
    \/ DashboardStep(1, {"u1"})

IsolationSpec == Init /\ [][IsolationNext]_vars

\* the operations that only read
ReadOps == {"period", "analytics", "dashboard"}

\* the step answers the aggregation request of slot p with its result
AnswersRead(p) ==
    /\ frame[p].op \in ReadOps
    /\ resp'[p] # resp[p]
    /\ resp'[p].status = 200

\* C21: aggregation is scoped to one user.  What a period summary, analytics or
\* dashboard request of user A reads is A's own balance and exactly A's own
\* stored transactions of the queried range, and what it answers is computed
\* from them; and no step of a request of another user B changes A's stored
\* transactions or A's balance.  So creating or deleting transactions of B never
\* changes the values A is answered with.
C21_AggregationScopedToUser ==
    /\ [][\A u \in Users :
              (txnsOf(u)' # txnsOf(u) \/ users'[u] # users[u]) =>
              \E p \in Procs : frame[p].op \in {"create", "delete"} /\ frame[p].userId = u]_vars
    /\ [][\A p \in Procs :
              /\ (pc[p] \in {"analytics_user", "dashboard_user"} /\ pc'[p] # pc[p]) =>
                     frame'[p].currentBalance = storedBalance(users[frame[p].userId])
              /\ (pc[p] = "dashboard_current" /\ pc'[p] # pc[p]) =>
                     Range(frame'[p].currentTransactions) =
                         {t \in txnsOf(frame[p].userId) :
                              Between(t.date, frame[p].ranges.current.start,
                                      frame[p].ranges.current.end)}
              /\ (AnswersRead(p) /\ frame[p].op = "period") =>
                     /\ Range(resp'[p].transactions) =
                            {t \in txnsOf(frame[p].userId) :
                                 StrLeq(toISOString(frame[p].startDate), t.date)}
                     /\ resp'[p].summary = summaryOf(resp'[p].transactions)
              /\ (AnswersRead(p) /\ frame[p].op = "analytics") =>
                     LET r == resp'[p]
                     IN  /\ Range(r.transactions) =
                                {t \in txnsOf(frame[p].userId) :
                                     Between(t.date, frame[p].dateRange.start,
                                             frame[p].dateRange.end)}
                         /\ r.currentBalance = frame[p].currentBalance
                         /\ r.summary = summaryOf(r.transactions)
                         /\ r.chartData =
                                generateChartData(groupTransactionsByDate(r.transactions),
                                    chartSeed(r.currentBalance, r.summary.netAmount))
                         /\ r.categoryBreakdown = calculateCategoryBreakdown(r.transactions)
              /\ (AnswersRead(p) /\ frame[p].op = "dashboard") =>
                     LET r == resp'[p]
                     IN  /\ Range(r.previousTransactions) =
                                {t \in txnsOf(frame[p].userId) :
                                     Between(t.date, frame[p].ranges.previous.start,
                                             frame[p].ranges.previous.end)}
                         /\ r.currentTransactions = frame[p].currentTransactions
                         /\ r.dashboard.currentBalance.value = frame[p].currentBalance
                         /\ r.dashboard.monthlyIncome.value =
                                sumOfType(r.currentTransactions, "income")
                         /\ r.dashboard.monthlyExpense.value =
                                sumOfType(r.currentTransactions, "expense")]_vars

\* C21's case: u1 is answered its analytics, computed from its one stored
\* transaction, while a transaction of u2 of the same range is stored
C21_Witness ==
    /\ resp[1].op = "analytics" /\ resp[1].status = 200
    /\ resp[1].userId = "u1"
    /\ Len(resp[1].transactions) = 1
    /\ txnsOf("u1") = Range(resp[1].transactions)
    /\ \E t \in txnsOf("u2") :
           Between(t.date, resp[1].dateRange.from, resp[1].dateRange.to)
(***************************************************************************)
(* The error claims of the aggregation endpoints.                          *)
(***************************************************************************)
\* the fields of a response that carry aggregates
AggregateFields ==
    {"summary", "chartData", "categoryBreakdown", "dashboard", "currentBalance", "transactions"}

\* C22: when the users table holds no item for the authenticated identity, an
\* analytics or dashboard request is answered with a 4xx client error at the
\* user lookup and no aggregate is returned.
C22_MissingUserIsClientError ==
    [][\A p \in Procs :
           (/\ pc[p] \in {"analytics_user", "dashboard_user"}
            /\ pc'[p] # pc[p]
            /\ ~users[frame[p].userId].exists) =>
               /\ pc'[p] = "idle"
               /\ resp'[p].status \in 400..499
               /\ DOMAIN resp'[p] \cap AggregateFields = {}]_vars

(***************************************************************************)
(* FaultSpec: the requests of user u1 served one at a time while any call  *)
(* to the store may fail.  A call that fails rejects the await the handler *)
(* is suspended at and changes nothing in the tables.                      *)
(***************************************************************************)
\* a failure swallowed and answered with the aggregates of no data (C23's mutant)
storeFails_degraded(p) ==
    /\ pc[p] # "idle"
    /\ Respond(p, [op |-> frame[p].op, status |-> 200, summary |-> summaryOf(<<>>)])
    /\ UNCHANGED <<users, txns, nextId, clock, tz, anchor, fnIn, fnOut, alerts>>

\* dynamoDb.send(...) rejects.  Every handler is one try block whose catch
\* answers 500 with the error's message; only the first balance update of
\* createTransaction has a catch of its own, which goes on to the SET update
storeFails(p) ==
    /\ pc[p] # "idle"
    /\ IF pc[p] = "create_add"
       THEN Goto(p, "create_set", frame[p])
       ELSE Respond(p, [op |-> frame[p].op, status |-> 500, error |-> "store failure"])
    /\ UNCHANGED <<users, txns, nextId, clock, tz, anchor, fnIn, fnOut, alerts>>

FaultPeriods == {"30d", "5d"}

FaultNext ==
    \/ CreateStep(1, {"u1"} \X ConcBodies)
    \/ DeleteStep(1, {"u1"}, 1..MaxTxns)
    \/ RegisterStep(1, {"u1"}, {b \in RegisterBodies : b.email # Missing /\ b.hasBalance})
    \/ \E period \in FaultPeriods : getTransactionsByPeriod(1, "u1", period)
    \/ periodQuery(1)
    \/ \E period \in FaultPeriods : getAnalytics(1, "u1", period)
    \/ analyticsUser(1)
    \/ analyticsQuery(1)
    \/ DashboardStep(1, {"u1"})
    \/ storeFails(1)

FaultSpec == Init /\ [][FaultNext]_vars

\* the await that follows each await of the aggregation handlers
NextAwait(label) ==
    CASE label = "analytics_user"    -> "analytics_query"
      [] label = "dashboard_user"    -> "dashboard_current"
      [] label = "dashboard_current" -> "dashboard_previous"
      [] OTHER                       -> "idle"

\* the step answers slot p's request with the result of its last query
AnsweredFromLastQuery(p) ==
    /\ resp'[p].status = 200
    /\ CASE pc[p] = "period_query" ->
                resp'[p].transactions \in
                    queryFrom(frame[p].userId, toISOString(frame[p].startDate))
         [] pc[p] = "analytics_query" ->
                /\ resp'[p].transactions \in
                       queryBetween(frame[p].userId, frame[p].dateRange.start,
                                    frame[p].dateRange.end)
                /\ resp'[p].currentBalance = frame[p].currentBalance
         [] pc[p] = "dashboard_previous" ->
                /\ resp'[p].previousTransactions \in
                       queryBetween(frame[p].userId, frame[p].ranges.previous.start,
                                    frame[p].ranges.previous.end)
                /\ resp'[p].currentTransactions = frame[p].currentTransactions
         [] OTHER -> FALSE

\* C23: when the user lookup or a transaction query of a period summary,
\* analytics or dashboard request fails, the request is answered 5xx with no
\* summary, chart, breakdown or metric; the failed call is not made again (the
\* handler never resumes at the same or an earlier await), and aggregates are
\* answered only from the result of the handler's last query, never from the
\* data fetched before a failure.
C23_ReadFailureIsServerError ==
    [][\A p \in Procs :
           (frame[p].op \in ReadOps /\ (pc'[p] # pc[p] \/ resp'[p] # resp[p]
                                        \/ frame'[p] # frame[p])) =>
               /\ pc'[p] \in {NextAwait(pc[p]), "idle"}
               /\ pc'[p] = "idle" =>
                      \/ /\ resp'[p].status \in 500..599
                         /\ DOMAIN resp'[p] \cap AggregateFields = {}
                         /\ frame'[p] = NoFrame
                      \/ AnsweredFromLastQuery(p)
               /\ txns' = txns /\ users' = users]_vars

\* C23's case: a dashboard request of a user with stored transactions was
\* answered 500 with nothing but the error
C23_Witness ==
    /\ resp[1].op = "dashboard" /\ resp[1].status = 500
    /\ DOMAIN resp[1] = {"op", "status", "error"}
    /\ txnsOf("u1") # {}
    /\ pc[1] = "idle"

(***************************************************************************)
(* AuthSpec: the protected routes.  Each request passes verifyCognitoToken *)
(* before its handler; the requests are createTransaction and getDashboard, *)
(* served one at a time.                                                   *)
(***************************************************************************)
\* what jwt.decode returns for a string that is not a JWT
NoPayload == [sub |-> NoSub, decoded |-> FALSE]

\* req.headers.authorization?.split(' ')[1] when there is no bearer token
NoToken == [present |-> FALSE, wellFormed |-> FALSE, signedByPool |-> FALSE, sub |-> NoSub]

\* bearer tokens: none, a string that is not a JWT, JWTs signed with a key of the
\* user pool (for u1, for u2, and one without sub), and a JWT naming u1 whose
\* signature does not verify against the pool's keys
Tokens ==
    { NoToken,
      [present |-> TRUE, wellFormed |-> FALSE, signedByPool |-> FALSE, sub |-> NoSub],
      [present |-> TRUE, wellFormed |-> TRUE,  signedByPool |-> TRUE,  sub |-> "u1"],
      [present |-> TRUE, wellFormed |-> TRUE,  signedByPool |-> TRUE,  sub |-> "u2"],
      [present |-> TRUE, wellFormed |-> TRUE,  signedByPool |-> TRUE,  sub |-> NoSub],
      [present |-> TRUE, wellFormed |-> TRUE,  signedByPool |-> FALSE, sub |-> "u1"] }

\* jwt.decode(token): the payload of a well-formed JWT, whatever its signature
jwtDecode(token) ==
    IF token.wellFormed THEN [sub |-> token.sub, decoded |-> TRUE] ELSE NoPayload

\* the middleware: 401 without a token or when the token does not decode;
\* otherwise req.user = decoded and next(), the route's handler
verifyCognitoToken(p, token, next(_)) ==
    IF ~token.present
    THEN /\ pc[p] = "idle"
         /\ Respond(p, [op |-> "auth", status |-> 401, error |-> "No token provided"])
         /\ UNCHANGED <<users, txns, nextId, clock, tz, anchor, fnIn, fnOut, alerts>>
    ELSE IF ~jwtDecode(token).decoded
    THEN /\ pc[p] = "idle"
         /\ Respond(p, [op |-> "auth", status |-> 401, error |-> "Invalid token format"])
         /\ UNCHANGED <<users, txns, nextId, clock, tz, anchor, fnIn, fnOut, alerts>>
    ELSE next(jwtDecode(token))

\* router.post('/', verifyCognitoToken, transactionController.createTransaction)
postTransaction(p, token, body) ==
    verifyCognitoToken(p, token, LAMBDA user : createTransaction(p, user.sub, body))

\* router.get('/', verifyCognitoToken, getDashboard)
getDashboardRoute(p, token) ==
    verifyCognitoToken(p, token, LAMBDA user : getDashboard(p, user.sub))

AuthNext ==
    \/ \E token \in Tokens, body \in ConcBodies : postTransaction(1, token, body)
    \/ createPut(1)
    \/ createAdd(1)
    \/ createSet(1)
    \/ createGet(1)
    \/ \E token \in Tokens : getDashboardRoute(1, token)
    \/ dashboardUser(1)
    \/ dashboardCurrent(1)
    \/ dashboardPrevious(1)

AuthSpec == Init /\ [][AuthNext]_vars

\* C24: a protected handler is reached only by a request whose bearer token's
\* signature verifies against the user pool's public keys: a request with no
\* token, or with a token that does not verify, is answered 401 and its handler
\* takes no step (nothing is stored and no request is in flight for the
\* identity the token names).
C24_HandlerNeedsVerifiedToken ==
    [][\A p \in Procs : \A token \in Tokens :
           (/\ ~token.signedByPool
            /\ pc[p] = "idle"
            /\ \/ getDashboardRoute(p, token)
               \/ \E body \in ConcBodies : postTransaction(p, token, body)) =>
               /\ resp'[p].status = 401
               /\ pc'[p] = "idle"
               /\ frame'[p] = NoFrame
               /\ nextId' = nextId]_vars

(***************************************************************************)
(* The aggregation path is pure and read-only.                             *)
(***************************************************************************)
\* the slices of a breakdown, whatever their order
SliceSets(breakdown) == [income |-> Range(breakdown.income), expense |-> Range(breakdown.expense)]

\* the builders applied again to the transactions and the balance an analytics
\* response was computed from give the response's own summary, series and
\* breakdown; and on the same transactions in any other order the same
\* summary, the same series and the same slices
RecomputedAlike(r) ==
    /\ summaryOf(r.transactions) = r.summary
    /\ generateChartData(groupTransactionsByDate(r.transactions),
                         chartSeed(r.currentBalance, r.summary.netAmount)) = r.chartData
    /\ calculateCategoryBreakdown(r.transactions) = r.categoryBreakdown
    /\ \A s \in Orderings(Range(r.transactions)) :
           /\ summaryOf(s) = r.summary
           /\ generateChartData(groupTransactionsByDate(s),
                                chartSeed(r.currentBalance, r.summary.netAmount)) = r.chartData
           /\ SliceSets(calculateCategoryBreakdown(s)) = SliceSets(r.categoryBreakdown)

DeleteRaceNext ==
    \/ (\A q \in Procs \ {1} : pc[q] = "idle") /\ CreateStep(1, {"u1"} \X ConcBodies)
    \/ frame[1].op # "create" /\ \E p \in Procs : DeleteStep(p, {"u1"}, 1..MaxTxns)

DeleteRaceSpec == Init /\ [][DeleteRaceNext]_vars

\* C26: concurrent deleteTransaction requests for the same transaction reverse
\* the balance by its signed amount at most once: whenever every request has
\* finished, the user's stored balance less the signed sum of the transactions
\* that remain stored is the balance the user started with.
C26_DeleteReversedOnce ==
    \A u \in Users :
        (\A p \in Procs : pc[p] = "idle") =>
            storedBalance(users[u]) - SumSigned(txnsOf(u)) = anchor[u]

(***************************************************************************)
(* The error claims of the ledger endpoints.                               *)
(***************************************************************************)
\* the step answers slot p's create or delete request with an error status
AnswersWriteWithError(p) ==
    /\ frame[p].op \in {"create", "delete"}
    /\ pc'[p] = "idle"
    /\ resp'[p].status >= 400

\* C27: a createTransaction or deleteTransaction request answered with an error
\* status has left the store as it was before the request, also when a store
\* call failed part-way: the transaction of the failed create is not stored,
\* the transaction of the failed delete is still stored, and the user's balance
\* is still the starting balance plus the signed sum of the stored transactions.
C27_ErrorLeavesStoreUnchanged ==
    [][\A p \in Procs :
           AnswersWriteWithError(p) =>
               /\ frame[p].op = "create" => frame[p].transaction \notin txns'
               /\ (frame[p].op = "delete" /\ pc[p] # "delete_get") =>
                      frame[p].transaction \in txns'
               /\ storedBalance(users'[frame[p].userId]) =
                      anchor'[frame[p].userId] + SumSigned(txnsOf(frame[p].userId))']_vars

\* the stored transaction with the id slot p's delete request names, if any
NamedByDelete(p) == {t \in txns : t.transactionId = frame[p].id}

\* C28: a deleteTransaction request naming a transaction of another user is
\* answered 403 and one naming an id that is not stored is answered 404, and
\* neither removes a transaction or changes a balance; and whenever a step of a
\* delete request removes a transaction or changes a balance, the transaction
\* and the balance are the requester's own.
C28_DeleteOnlyOwnTransactions ==
    /\ [][\A p \in Procs :
              (pc[p] = "delete_get" /\ pc'[p] # pc[p]) =>
                  /\ (NamedByDelete(p) = {}) =>
                         /\ resp'[p].status = 404 /\ pc'[p] = "idle"
                         /\ txns' = txns /\ users' = users
                  /\ (\E t \in NamedByDelete(p) : t.userId # frame[p].userId) =>
                         /\ resp'[p].status = 403 /\ pc'[p] = "idle"
                         /\ txns' = txns /\ users' = users]_vars
    /\ [][\A p \in Procs :
              frame[p].op = "delete" =>
                  /\ \A t \in txns \ txns' : t.userId = frame[p].userId
                  /\ \A u \in Users : users'[u] # users[u] => u = frame[p].userId]_vars

\* C28's case: u2's request to delete u1's stored transaction was answered 403
\* with the transaction still stored and u1's balance still holding its amount
C28_Witness ==
    /\ resp[1].op = "delete" /\ resp[1].status = 403
    /\ pc[1] = "idle"
    /\ Cardinality(txnsOf("u1")) = 1 /\ txnsOf("u2") = {}
    /\ storedBalance(users["u1"]) = anchor["u1"] + SumSigned(txnsOf("u1"))
    /\ storedBalance(users["u1"]) # anchor["u1"]
    /\ ~users["u2"].exists

(***************************************************************************)
(* The balance metric of the dashboard.                                    *)
(***************************************************************************)
\* C29: on every dashboard answer the trend of the currentBalance metric is
\* "up" when the current month's income less its expenses is >= 0 and "down"
\* when it is < 0, whatever the stored balance.
C29_BalanceTrendFollowsNet ==
    \A p \in Procs :
        (resp[p].op = "dashboard" /\ resp[p].status = 200) =>
            LET d == resp[p].dashboard
            IN  d.currentBalance.trend =
                    (IF d.monthlyIncome.value - d.monthlyExpense.value >= 0
                     THEN "up" ELSE "down")

(***************************************************************************)
(* Registration.                                                           *)
(***************************************************************************)
\* a register request of user u has succeeded: register is the only writer of
\* the email of a users item, and no item is ever removed
Registered(u) == users[u].exists /\ users[u].email # Missing

\* C30: a register request with an email is answered 201, and stores the
\* profile with the supplied starting balance, for every user for whom no
\* register request has succeeded before, whatever the user has requested
\* earlier; it is answered 'User already exists' only after a successful
\* register of that user, and then leaves the users table unchanged.
C30_RegisterSucceedsOnce ==
    [][\A p \in Procs :
           (pc[p] = "register_put" /\ pc'[p] # pc[p]) =>
               IF Registered(frame[p].userId)
               THEN /\ resp'[p].status = 400
                    /\ resp'[p].error = "User already exists"
                    /\ users' = users
               ELSE /\ resp'[p].status = 201
                    /\ users'[frame[p].userId] = frame[p].user]_vars
=============================================================================
